---- MODULE Spec2Model ----
(***************************************************************************)
(* Model of the AI triage webhook: the baseline handler (api/triage.js)    *)
(* and the revised handler (the two-agent revision with rate limiting,     *)
(* brace repair and theme classification).                                 *)
(*                                                                         *)
(* Text is modelled as a sequence of lexical atoms: every special          *)
(* character the code looks at (braces, brackets, colon, comma, the double *)
(* quote), the three-backtick fence, whitespace, number literals and runs  *)
(* of ordinary characters ("words").  An atom has at least one character,  *)
(* so atom positions and character positions are ordered alike.            *)
(***************************************************************************)
EXTENDS Integers, Sequences, FiniteSets, TLC

(***************************************************************************)
(* Lexical atoms                                                           *)
(***************************************************************************)
P(c)  == [k |-> "p",     s |-> c,    n |-> 0]
Q     == [k |-> "q",     s |-> "dq", n |-> 0]
W(w)  == [k |-> "w",     s |-> w,    n |-> 0]
N(i)  == [k |-> "num",   s |-> "",   n |-> i]
SP    == [k |-> "ws",    s |-> "sp", n |-> 0]
NL    == [k |-> "ws",    s |-> "nl", n |-> 0]
FENCE == [k |-> "fence", s |-> "bt3", n |-> 0]

LBRACE == P("{")
RBRACE == P("}")

(***************************************************************************)
(* JavaScript values.  Every value is a record of the same shape:          *)
(*   t     the type tag                                                    *)
(*   n     the number (t = "num") or 0/1 (t = "bool")                      *)
(*   chars the atoms of a string (t = "str")                               *)
(*   keys  the property names of an object, in insertion order; for an     *)
(*         array the names of its non-index properties                     *)
(*   kids  the property values; for an array the elements followed by the  *)
(*         values of its non-index properties                              *)
(***************************************************************************)
JUndef    == [t |-> "undef", n |-> 0, chars |-> <<>>, keys |-> <<>>, kids |-> <<>>]
JNull     == [t |-> "null",  n |-> 0, chars |-> <<>>, keys |-> <<>>, kids |-> <<>>]
JNum(i)   == [t |-> "num",   n |-> i, chars |-> <<>>, keys |-> <<>>, kids |-> <<>>]
JBool(b)  == [t |-> "bool",  n |-> IF b THEN 1 ELSE 0, chars |-> <<>>, keys |-> <<>>, kids |-> <<>>]
JStrA(cs) == [t |-> "str",   n |-> 0, chars |-> cs, keys |-> <<>>, kids |-> <<>>]
JStr(w)   == JStrA(<<W(w)>>)
JObj(ks, vs) == [t |-> "obj", n |-> 0, chars |-> <<>>, keys |-> ks, kids |-> vs]
JArr(vs)  == [t |-> "arr",   n |-> 0, chars |-> <<>>, keys |-> <<>>, kids |-> vs]
JEmptyObj == JObj(<<>>, <<>>)

\* a property name made of one word
K(w) == <<W(w)>>

\* JavaScript truthiness (ToBoolean)
Truthy(v) ==
  CASE v.t = "undef" -> FALSE
    [] v.t = "null"  -> FALSE
    [] v.t = "num"   -> v.n # 0
    [] v.t = "bool"  -> v.n = 1
    [] v.t = "str"   -> v.chars # <<>>
    [] OTHER         -> TRUE

KeyIndex(v, key) ==
  IF \E j \in 1..Len(v.keys) : v.keys[j] = key
  THEN CHOOSE j \in 1..Len(v.keys) : v.keys[j] = key
  ELSE 0

\* v.key for a value that is not null or undefined: primitives have no such
\* property, objects and arrays are looked up by name
Get(v, key) ==
  IF v.t \in {"obj", "arr"} /\ KeyIndex(v, key) # 0
  THEN v.kids[Len(v.kids) - Len(v.keys) + KeyIndex(v, key)]
  ELSE JUndef

HasKey(v, key) == v.t \in {"obj", "arr"} /\ KeyIndex(v, key) # 0

\* v.key = x on an object or array: an existing property keeps its place
SetProp(v, key, x) ==
  IF KeyIndex(v, key) # 0
  THEN [v EXCEPT !.kids[Len(v.kids) - Len(v.keys) + KeyIndex(v, key)] = x]
  ELSE [v EXCEPT !.keys = Append(v.keys, key), !.kids = Append(v.kids, x)]

(***************************************************************************)
(* String helpers (String.prototype.includes / split / trim / lastIndexOf) *)
(***************************************************************************)
IsWs(a) == a.k = "ws"

MatchAt(text, pat, i) ==
  /\ i + Len(pat) - 1 <= Len(text)
  /\ \A j \in 1..Len(pat) : text[i + j - 1] = pat[j]

\* position of the first occurrence of pat in text, 0 when there is none
IndexOf(text, pat) ==
  IF \E i \in 1..Len(text) : MatchAt(text, pat, i)
  THEN CHOOSE i \in 1..Len(text) :
         MatchAt(text, pat, i) /\ \A j \in 1..(i - 1) : ~MatchAt(text, pat, j)
  ELSE 0

Includes(text, pat) == IndexOf(text, pat) # 0

\* text.split(pat)[0]
BeforeFirst(text, pat) ==
  IF Includes(text, pat) THEN SubSeq(text, 1, IndexOf(text, pat) - 1) ELSE text

\* text.split(pat).slice(1).join(pat), for a text that includes pat
AfterFirst(text, pat) ==
  SubSeq(text, IndexOf(text, pat) + Len(pat), Len(text))

\* text.split(pat)[1], for a text that includes pat
SplitSecond(text, pat) == BeforeFirst(AfterFirst(text, pat), pat)

RECURSIVE TrimStart(_)
TrimStart(text) ==
  IF text # <<>> /\ IsWs(Head(text)) THEN TrimStart(Tail(text)) ELSE text

RECURSIVE TrimEnd(_)
TrimEnd(text) ==
  IF text # <<>> /\ IsWs(text[Len(text)])
  THEN TrimEnd(SubSeq(text, 1, Len(text) - 1)) ELSE text

Trim(text) == TrimEnd(TrimStart(text))

CountOf(text, a) == Cardinality({i \in 1..Len(text) : text[i] = a})

\* 1-based position of the last occurrence of atom a, 0 when there is none
LastIndexOf(text, a) ==
  IF \E i \in 1..Len(text) : text[i] = a
  THEN CHOOSE i \in 1..Len(text) :
         text[i] = a /\ \A j \in (i + 1)..Len(text) : text[j] # a
  ELSE 0

(***************************************************************************)
(* JSON.stringify (compact form) and JSON.parse                            *)
(***************************************************************************)
RECURSIVE Stringify(_)
RECURSIVE StringifyMembers(_, _)
RECURSIVE StringifyElems(_, _)

Stringify(v) ==
  CASE v.t = "obj"  -> <<LBRACE>> \o StringifyMembers(v, 1) \o <<RBRACE>>
    [] v.t = "arr"  -> <<P("[")>> \o StringifyElems(v, 1) \o <<P("]")>>
    [] v.t = "str"  -> <<Q>> \o v.chars \o <<Q>>
    [] v.t = "num"  -> <<N(v.n)>>
    [] v.t = "bool" -> <<W(IF v.n = 1 THEN "true" ELSE "false")>>
    [] OTHER        -> <<W("null")>>

StringifyMembers(v, j) ==
  IF j > Len(v.keys) THEN <<>>
  ELSE (IF j > 1 THEN <<P(",")>> ELSE <<>>)
       \o <<Q>> \o v.keys[j] \o <<Q, P(":")>> \o Stringify(v.kids[j])
       \o StringifyMembers(v, j + 1)

StringifyElems(v, j) ==
  IF j > Len(v.kids) - Len(v.keys) THEN <<>>
  ELSE (IF j > 1 THEN <<P(",")>> ELSE <<>>)
       \o Stringify(v.kids[j]) \o StringifyElems(v, j + 1)

\* result of a parsing step: ok = FALSE is a SyntaxError
ParseFail     == [ok |-> FALSE, v |-> JUndef, i |-> 0]
ParseOk(v, i) == [ok |-> TRUE,  v |-> v,      i |-> i]

RECURSIVE SkipWs(_, _)
SkipWs(s, i) == IF i <= Len(s) /\ IsWs(s[i]) THEN SkipWs(s, i + 1) ELSE i

\* the string whose opening quote is at i - 1: its atoms up to the closing
\* quote; a raw line break inside a string is a syntax error
RECURSIVE ScanString(_, _, _)
ScanString(s, i, acc) ==
  IF i > Len(s) THEN ParseFail
  ELSE IF s[i] = Q THEN ParseOk(JStrA(acc), i + 1)
  ELSE IF s[i] = NL THEN ParseFail
  ELSE ScanString(s, i + 1, Append(acc, s[i]))

RECURSIVE ParseValue(_, _)
RECURSIVE ParseMembers(_, _, _)
RECURSIVE ParseElems(_, _, _)

ParseValue(s, i0) ==
  LET i == SkipWs(s, i0) IN
  IF i > Len(s) THEN ParseFail
  ELSE
    CASE s[i] = LBRACE ->
           LET j == SkipWs(s, i + 1) IN
           IF j <= Len(s) /\ s[j] = RBRACE THEN ParseOk(JEmptyObj, j + 1)
           ELSE ParseMembers(s, j, JEmptyObj)
      [] s[i] = P("[") ->
           LET j == SkipWs(s, i + 1) IN
           IF j <= Len(s) /\ s[j] = P("]") THEN ParseOk(JArr(<<>>), j + 1)
           ELSE ParseElems(s, j, <<>>)
      [] s[i] = Q -> ScanString(s, i + 1, <<>>)
      [] s[i].k = "num" -> ParseOk(JNum(s[i].n), i + 1)
      [] s[i] = W("true")  -> ParseOk(JBool(TRUE), i + 1)
      [] s[i] = W("false") -> ParseOk(JBool(FALSE), i + 1)
      [] s[i] = W("null")  -> ParseOk(JNull, i + 1)
      [] OTHER -> ParseFail

\* the members of an object from position i (the start of a member)
ParseMembers(s, i, obj) ==
  IF i > Len(s) \/ s[i] # Q THEN ParseFail
  ELSE
    LET key == ScanString(s, i + 1, <<>>) IN
    IF ~key.ok THEN ParseFail
    ELSE
      LET c == SkipWs(s, key.i) IN
      IF c > Len(s) \/ s[c] # P(":") THEN ParseFail
      ELSE
        LET val == ParseValue(s, c + 1) IN
        IF ~val.ok THEN ParseFail
        ELSE
          LET d == SkipWs(s, val.i) IN
          IF d > Len(s) THEN ParseFail
          ELSE IF s[d] = RBRACE
            THEN ParseOk(SetProp(obj, key.v.chars, val.v), d + 1)
          ELSE IF s[d] = P(",")
            THEN ParseMembers(s, SkipWs(s, d + 1), SetProp(obj, key.v.chars, val.v))
          ELSE ParseFail

\* the elements of an array from position i (the start of an element)
ParseElems(s, i, elems) ==
  LET val == ParseValue(s, i) IN
  IF ~val.ok THEN ParseFail
  ELSE
    LET d == SkipWs(s, val.i) IN
    IF d > Len(s) THEN ParseFail
    ELSE IF s[d] = P("]") THEN ParseOk(JArr(Append(elems, val.v)), d + 1)
    ELSE IF s[d] = P(",") THEN ParseElems(s, d + 1, Append(elems, val.v))
    ELSE ParseFail

\* JSON.parse: one value, then nothing but whitespace
JsonParse(s) ==
  LET r == ParseValue(s, 1) IN
  IF r.ok /\ SkipWs(s, r.i) = Len(s) + 1 THEN r ELSE ParseFail

(***************************************************************************)
(* Priority Calculator                                                     *)
(***************************************************************************)
\* effortScores[size]: 0 stands for undefined (no such entry)
effortScores(size) ==
  IF size.t # "str" THEN 0
  ELSE CASE size.chars = K("XS") -> 100
         [] size.chars = K("S")  -> 80
         [] size.chars = K("M")  -> 60
         [] size.chars = K("L")  -> 40
         [] size.chars = K("XL") -> 20
         [] OTHER -> 0

\* (v || d) for a score field; the score fields of the model are numbers,
\* null or absent
NumberOr(v, d) == IF Truthy(v) THEN v.n ELSE d

\* The weighted sum is evaluated in IEEE-754 doubles.  For the score values
\* of the model the double sum is the exact value, except for the inputs
\* (business_impact, strategic_fit, cross_client_value, effortScore) listed
\* here, where the exact sum ends in .5 and the double sum lies just below
\* it: 1*0.35 + 0 + 0 + 41*0.15 evaluates to 6.499999999999999.
DoubleSumBelowHalf == {<<1, 0, 0, 41>>}

\* lines 626-632: the weighted sum and Math.round (the nearest integer, a
\* tie going up); the sum is kept in hundredths: weights 0.35, 0.25, 0.25, 0.15
roundedWeightedSum(bi, sf, cc, effortScore) ==
  LET overall100 == bi * 35 + sf * 25 + cc * 25 + effortScore * 15 IN
  IF overall100 % 100 = 50 /\ <<bi, sf, cc, effortScore>> \in DoubleSumBelowHalf
  THEN (overall100 - 50) \div 100
  ELSE (overall100 + 50) \div 100

\* line 624: scores.effort_score || effortScores[scores.effort_size] || 50
effortScoreOf(scores) ==
  IF Truthy(Get(scores, K("effort_score")))
  THEN Get(scores, K("effort_score")).n
  ELSE IF effortScores(Get(scores, K("effort_size"))) # 0
       THEN effortScores(Get(scores, K("effort_size")))
       ELSE 50

calculateOverallPriority(scores) ==
  roundedWeightedSum(NumberOr(Get(scores, K("business_impact")), 0),
                     NumberOr(Get(scores, K("strategic_fit")), 0),
                     NumberOr(Get(scores, K("cross_client_value")), 0),
                     effortScoreOf(scores))

(***************************************************************************)
(* Response Parser                                                         *)
(***************************************************************************)
JSON_FENCE == <<FENCE, W("json")>>

\* mutant: any fence is looked for before a json fence
ExtractJsonStr_anyFenceFirst(text) ==
  Trim(IF Includes(text, <<FENCE>>)
       THEN BeforeFirst(SplitSecond(text, <<FENCE>>), <<FENCE>>)
       ELSE text)

\* lines 540-554 (baseline 404-418): pick the body and trim it
ExtractJsonStr(text) ==
  Trim(IF Includes(text, JSON_FENCE)
       THEN BeforeFirst(SplitSecond(text, JSON_FENCE), <<FENCE>>)
       ELSE IF Includes(text, <<FENCE>>)
            THEN BeforeFirst(SplitSecond(text, <<FENCE>>), <<FENCE>>)
            ELSE text)

\* the backward scan from position i with braceCount open closing braces:
\* TRUE when the count reaches zero
RECURSIVE MatchingBraceFound(_, _, _)
MatchingBraceFound(s, i, braceCount) ==
  IF i < 1 THEN FALSE
  ELSE LET c == braceCount + (IF s[i] = RBRACE THEN 1 ELSE 0)
                           - (IF s[i] = LBRACE THEN 1 ELSE 0)
       IN IF c = 0 THEN TRUE ELSE MatchingBraceFound(s, i - 1, c)

\* mutant: the missing closing brace is appended
RepairBraces_append(jsonStr) ==
  IF CountOf(jsonStr, LBRACE) > CountOf(jsonStr, RBRACE)
  THEN Append(jsonStr, RBRACE)
  ELSE jsonStr

\* lines 557-579 of the revised parser
RepairBraces(jsonStr) ==
  IF CountOf(jsonStr, LBRACE) > CountOf(jsonStr, RBRACE)
  THEN LET lastCompleteIndex == LastIndexOf(jsonStr, RBRACE) IN
       \* lastCompleteIndex > 0 in 0-based positions
       IF lastCompleteIndex > 1
          /\ MatchingBraceFound(jsonStr, lastCompleteIndex - 1, 1)
       THEN SubSeq(jsonStr, 1, lastCompleteIndex)
       ELSE jsonStr
  ELSE jsonStr

\* outcome of a function body: a returned value or a thrown exception
Return(v) == [threw |-> FALSE, v |-> v]
Throw     == [threw |-> TRUE,  v |-> JUndef]

\* mutant: a missing overall_priority is left missing
FillOverallPriority_skip(parsed) == Return(parsed)

\* lines 592-596 (baseline 432-436): an overall_priority that is missing, or
\* falsy, is computed and assigned; the assignment to a property of a
\* primitive throws in a module, which is strict code
FillOverallPriority(parsed) ==
  LET scores == Get(parsed, K("scores")) IN
  IF Truthy(Get(scores, K("overall_priority"))) THEN Return(parsed)
  ELSE IF scores.t \in {"obj", "arr"}
  THEN Return(SetProp(parsed, K("scores"),
                      SetProp(scores, K("overall_priority"),
                              JNum(calculateOverallPriority(scores)))))
  ELSE Throw

\* mutant: only the scores field is required
ParseAndValidate_scoresOnly(jsonStr) ==
  LET r == JsonParse(jsonStr) IN
  IF ~r.ok \/ r.v.t = "null" THEN Throw
  ELSE IF ~Truthy(Get(r.v, K("scores"))) THEN Return(JNull)
  ELSE Return(r.v)

\* lines 581-598 (baseline 420-438): parse, validate, fill overall_priority
ParseAndValidate(jsonStr) ==
  LET r == JsonParse(jsonStr) IN
  IF ~r.ok THEN Throw                       \* SyntaxError
  ELSE LET parsed == r.v IN
    IF parsed.t = "null" THEN Throw         \* TypeError: parsed.scores of null
    ELSE IF ~Truthy(Get(parsed, K("scores")))
            \/ ~Truthy(Get(parsed, K("priority_recommendation")))
    THEN Return(JNull)
    ELSE FillOverallPriority(parsed)

\* mutant: the catch clause returns nothing
CatchAll_undefined(r) == IF r.threw THEN Return(JUndef) ELSE r

\* the catch clause (lines 600-604): every exception becomes null
CatchAll(r) == IF r.threw THEN Return(JNull) ELSE r

\* mutant: no try/catch around the body
parseAIResponse_uncaught(text) ==
  ParseAndValidate(RepairBraces(ExtractJsonStr(text)))

\* parseAIResponse of the revised handler
parseAIResponse(text) ==
  CatchAll(ParseAndValidate(RepairBraces(ExtractJsonStr(text))))

\* mutant: the baseline does not ask for a priority_recommendation
baseline_parseAIResponse_scoresOnly(text) ==
  CatchAll(ParseAndValidate_scoresOnly(ExtractJsonStr(text)))

\* parseAIResponse of the baseline handler (api/triage.js): no brace repair
baseline_parseAIResponse(text) ==
  CatchAll(ParseAndValidate(ExtractJsonStr(text)))

(***************************************************************************)
(* Inputs of the model                                                     *)
(***************************************************************************)
\* an object from a sequence of <<name, value>> pairs; a pair whose value is
\* undefined stands for an absent property
RECURSIVE MkObjFrom(_, _)
MkObjFrom(obj, pairs) ==
  IF pairs = <<>> THEN obj
  ELSE MkObjFrom(IF Head(pairs)[2].t = "undef" THEN obj
                 ELSE SetProp(obj, Head(pairs)[1], Head(pairs)[2]),
                 Tail(pairs))
MkObj(pairs) == MkObjFrom(JEmptyObj, pairs)

MkScores(bi, size, es, sf, cc, op) ==
  MkObj(<< <<K("business_impact"), bi>>, <<K("effort_size"), size>>,
           <<K("effort_score"), es>>, <<K("strategic_fit"), sf>>,
           <<K("cross_client_value"), cc>>, <<K("overall_priority"), op>> >>)

\* score sets handed to calculateOverallPriority
CalcScoreSets ==
  { MkScores(bi, size, es, sf, cc, JUndef) :
      bi \in {JUndef, JNull, JNum(0), JNum(1), JNum(30), JNum(90)},
      size \in {JUndef, JStr("S"), JStr("L"), JStr("XXL")},
      es \in {JUndef, JNum(0), JNum(41), JNum(60)},
      sf \in {JUndef, JNum(0), JNum(40), JNum(85)},
      cc \in {JUndef, JNum(0), JNum(35), JNum(80)} }

\* values of the scores property in a provider's answer
ResponseScores ==
  { MkScores(bi, JStr("S"), es, JNum(85), JNum(80), op) :
      bi \in {JUndef, JNum(90)},
      es \in {JUndef, JNum(80)},
      op \in {JUndef, JNum(0), JNum(78), JNum(100), JNum(150)} }
  \cup {JUndef, JNull, JNum(0), JNum(5), JStr("high"), JBool(TRUE),
        JArr(<<>>), JEmptyObj}

FastTrack == JStrA(<<W("Fast"), SP, W("Track")>>)

ResponseRecommendations == {JUndef, JStr("Standard"), FastTrack, JStrA(<<>>)}

ResponseSimilar ==
  {JUndef, JStr("None"),
   JStrA(<<W("uses"), SP, LBRACE, W("x")>>),
   JStrA(<<W("see"), SP, FENCE, W("code"), FENCE>>),
   JNum(7)}

ResponseEffortAnalysis ==
  {JUndef, MkObj(<< <<K("estimated_effort"), JStr("S")>> >>)}

\* the objects a provider may answer with: the scores come first or last
ResponseObjects ==
  { MkObj(<< <<K("scores"), sc>>, <<K("priority_recommendation"), rec>>,
             <<K("similar_features"), sim>>, <<K("effort_analysis"), ea>> >>) :
      sc \in ResponseScores, rec \in ResponseRecommendations,
      sim \in ResponseSimilar, ea \in ResponseEffortAnalysis }
  \cup
  { MkObj(<< <<K("priority_recommendation"), rec>>, <<K("scores"), sc>> >>) :
      sc \in ResponseScores, rec \in ResponseRecommendations }

\* answers that are valid JSON but no object
ResponseLiterals == {JNull, JNum(5), JStr("ok"), JArr(<<JNum(1)>>), JBool(TRUE)}

\* the most atoms a truncated answer has lost
MaxCut == 3

\* the text without its last cut atoms
CutEnd(s, cut) == SubSeq(s, 1, Len(s) - cut)

SORRY_TEXT ==
  <<W("Sorry"), P(","), SP, W("I"), SP, W("couldn't"), SP, W("analyze"),
    SP, W("this")>>

\* answers with two fenced blocks: the kinds, the objects of the block the
\* extraction is to pick, and the object of the other block
TwoBlockKinds == {"fence_then_json", "json_then_fence", "two_fences", "two_json"}

BlockObjects ==
  { MkObj(<< <<K("scores"), MkScores(JNum(90), JStr("S"), JNum(80), JNum(85), JNum(80), op)>>,
             <<K("priority_recommendation"), rec>> >>) :
      op \in {JUndef, JNum(78)}, rec \in {JUndef, JStr("Standard")} }

OTHER_BLOCK ==
  MkObj(<< <<K("scores"), MkScores(JNum(30), JStr("L"), JNum(40), JNum(40), JNum(35), JNum(35))>>,
           <<K("priority_recommendation"), JStrA(<<W("On"), SP, W("Hold")>>)>> >>)

\* how an input text is made: kind, the serialized value, the atoms cut off
ParseInputs ==
  { [kind |-> k, obj |-> o, cut |-> c] :
      k \in {"raw", "json_fence", "fence"}, o \in ResponseObjects,
      c \in 0..MaxCut }
  \cup { [kind |-> "raw", obj |-> o, cut |-> 0] : o \in ResponseLiterals }
  \cup { [kind |-> k, obj |-> JUndef, cut |-> 0] :
           k \in {"sorry", "empty", "fence_only", "braces",
                  "stray_braces", "leading_brace"} }
  \cup { [kind |-> k, obj |-> o, cut |-> 0] : k \in TwoBlockKinds, o \in BlockObjects }

TextOf(in) ==
  CASE in.kind = "raw" -> CutEnd(Stringify(in.obj), in.cut)
    [] in.kind = "json_fence" ->
         <<W("Analysis"), SP, W("complete"), P(":"), NL, NL, FENCE, W("json"), NL>>
         \o CutEnd(Stringify(in.obj), in.cut)
         \o (IF in.cut = 0 THEN <<NL, FENCE>> ELSE <<>>)
    [] in.kind = "fence" ->
         <<FENCE, NL>> \o CutEnd(Stringify(in.obj), in.cut)
         \o (IF in.cut = 0 THEN <<NL, FENCE>> ELSE <<>>)
    [] in.kind = "fence_then_json" ->
         <<W("Draft"), P(":"), NL, FENCE, NL>> \o Stringify(OTHER_BLOCK)
         \o <<NL, FENCE, NL, W("Final"), P(":"), NL, FENCE, W("json"), NL>>
         \o Stringify(in.obj) \o <<NL, FENCE>>
    [] in.kind = "json_then_fence" ->
         <<FENCE, W("json"), NL>> \o Stringify(in.obj)
         \o <<NL, FENCE, NL, FENCE, NL>> \o Stringify(OTHER_BLOCK) \o <<NL, FENCE>>
    [] in.kind = "two_fences" ->
         <<FENCE, NL>> \o Stringify(in.obj)
         \o <<NL, FENCE, NL, FENCE, NL>> \o Stringify(OTHER_BLOCK) \o <<NL, FENCE>>
    [] in.kind = "two_json" ->
         <<FENCE, W("json"), NL>> \o Stringify(in.obj)
         \o <<NL, FENCE, NL, FENCE, W("json"), NL>> \o Stringify(OTHER_BLOCK)
         \o <<NL, FENCE>>
    [] in.kind = "sorry" -> SORRY_TEXT
    [] in.kind = "fence_only" -> <<FENCE, W("json")>>
    [] in.kind = "braces" -> <<W("Result"), P(":"), SP, LBRACE, W("none"), RBRACE>>
    [] in.kind = "stray_braces" ->
         <<RBRACE, RBRACE, SP, LBRACE, LBRACE, LBRACE, W("a")>>
    [] in.kind = "leading_brace" -> <<RBRACE, LBRACE, LBRACE, W("a")>>
    [] OTHER -> <<>>

VARIABLES
  cScores,   \* SpecCalc: the argument of calculateOverallPriority
  cOut,      \* SpecCalc: [done, n], its result
  pIn,       \* SpecParse: how the input text was made
  pOut,      \* SpecParse: [done, by, r], the parser's outcome
  rev,           \* the deployed handler: "baseline" or "revised"
  genAI,         \* the Gemini client was initialised
  anthropic,     \* the Claude client was initialised
  requestCounts, \* admission times recorded for the client address
  now,           \* Date.now() at the arrival of the request
  req,           \* the request being handled
  pc,            \* where the handler is suspended
  logs,          \* logger.logs of the request: the action names
  calls,         \* provider calls of the request, in order
  result,        \* the result object of processTicketWithFullTriage
  response,      \* the HTTP response
  arrivals,      \* SpecRate: what happened to each request of the address
  inflight,      \* SpecRate: admitted requests whose triage has not ended
  runA,      \* SpecPair: one run of the revised handler on the request
  runB,      \* SpecPair: a second run of it on the same request
  sIn,       \* SpecSim: the arguments of generateSimilarityGroup
  sOut,      \* SpecSim: [done, r], its result
  eIn,       \* SpecEffort: the ticket given to estimateEffort
  eOut       \* SpecEffort: [done, ...], what estimateEffort returns

calcVars  == <<cScores, cOut>>
parseVars == <<pIn, pOut>>
envVars   == <<rev, genAI, anthropic>>
reqVars   == <<requestCounts, now, req, pc, logs, calls, result, response>>
mainVars  == <<envVars, reqVars>>
rateVars  == <<arrivals, inflight>>
pairVars   == <<runA, runB>>
simVars    == <<sIn, sOut>>
effortVars == <<eIn, eOut>>
auxVars    == <<pairVars, simVars, effortVars>>
vars == <<calcVars, parseVars, mainVars, rateVars, auxVars>>

ParsePending == [done |-> FALSE, by |-> "", r |-> Return(JUndef)]
NoInput == [kind |-> "none", obj |-> JUndef, cut |-> 0]
IdleParse == pIn = NoInput /\ pOut = ParsePending
CalcPending == [done |-> FALSE, n |-> 0]
IdleCalc == cScores = JUndef /\ cOut = CalcPending
IdleRate == arrivals = <<>> /\ inflight = 0

(***************************************************************************)
(* The request: rate limiting, orchestration and the two dispatches        *)
(***************************************************************************)
RATE_LIMIT  == 10
RATE_WINDOW == 60000

\* mutant: the cap is compared with > instead of >=
checkRateLimit_offByOne(requests, at) ==
  LET windowStart == at - RATE_WINDOW
      recentRequests == SelectSeq(requests, LAMBDA time : time > windowStart)
  IN IF Len(recentRequests) > RATE_LIMIT
     THEN [allowed |-> FALSE, requests |-> requests]
     ELSE [allowed |-> TRUE,  requests |-> Append(recentRequests, at)]

\* checkRateLimit(ip) for the client address of the model: the list stored
\* for the address afterwards, and whether the request is admitted
checkRateLimit(requests, at) ==
  LET windowStart == at - RATE_WINDOW
      recentRequests == SelectSeq(requests, LAMBDA time : time > windowStart)
  IN IF Len(recentRequests) >= RATE_LIMIT
     THEN [allowed |-> FALSE, requests |-> requests]
     ELSE [allowed |-> TRUE,  requests |-> Append(recentRequests, at)]

ON_HOLD        == JStrA(<<W("On"), SP, W("Hold")>>)
NOT_ANALYZED   == JStrA(<<W("Not"), SP, W("analyzed")>>)
THEME_NOT_IDENTIFIED == "THEME NOT IDENTIFIED"
LOW            == JStr("Low")
STANDARD       == JStr("Standard")

\* THEME_MAP: the controlled vocabulary of each product
THEME_MAP ==
  [product \in {"Khoros Aurora Community", "Khoros Care",
                "Khoros Classic Community", "Khoros Social Media & Marketing"} |->
    CASE product = "Khoros Aurora Community" ->
           {"ANALYTICS & REPORTING - AI-Powered Analytics",
            "ANALYTICS & REPORTING - Core Analytics",
            "ANALYTICS & REPORTING - REVIEW",
            "ANALYTICS & REPORTING - Reporting Enhancements",
            "COMMUNITY FEATURES & ENGAGEMENT - ACCEPTED",
            "CONTENT MANAGEMENT & MODERATION - Content Controls",
            "CONTENT MANAGEMENT & MODERATION - Moderation Features",
            "CONTENT MANAGEMENT & MODERATION - REVIEW",
            "CONTENT MANAGEMENT & MODERATION - Spam & Security Controls",
            "INTEGRATION & PUBLISHING - Events & Calendar",
            "INTEGRATION & PUBLISHING - Other Integrations",
            "INTEGRATION & PUBLISHING - Social Media Integration",
            "PLATFORM ADMINISTRATION - Admin Tools",
            "PLATFORM ADMINISTRATION - Infrastructure & Security",
            "SEARCH & DISCOVERY - Content Discovery",
            "SEARCH & DISCOVERY - Search Functionality",
            "USER EXPERIENCE & INTERFACE - Communication Customization",
            "USER EXPERIENCE & INTERFACE - Navigation & Layout",
            "USER EXPERIENCE & INTERFACE - UI Components & Widgets",
            "USER EXPERIENCE & INTERFACE - Visual Design"}
      [] product = "Khoros Care" ->
           {"AGENT PRODUCTIVITY & USER EXPERIENCE - Platform Stability (ONE Items)",
            "AI, AUTOMATION & INTELLIGENT FEATURES - ROADMAP REVIEW",
            "ANALYTICS & REPORTING - Permissions - LIKELY CARE",
            "CHANNEL INTEGRATION & EXPANSION - App Store Integrations",
            "CHANNEL INTEGRATION & EXPANSION - Bluesky (Twitter Replacement)",
            "CHANNEL INTEGRATION & EXPANSION - Facebook Updates",
            "CHANNEL INTEGRATION & EXPANSION - LinkedIn Enhancements",
            "CHANNEL INTEGRATION & EXPANSION - SMS & Messaging Platforms",
            "CHANNEL INTEGRATION & EXPANSION - Third-Party Integrations",
            "CHANNEL INTEGRATION & EXPANSION - TikTok Suite",
            "COMPLIANCE, SECURITY & AUTHENTICATION",
            "CONFIGURATION & SYSTEM MANAGEMENT - CARE"}
      [] product = "Khoros Classic Community" ->
           {"UI/UX ENHANCEMENTS - UI/UX ENHANCEMENTS (4 Features)",
            "USER MANAGEMENT & ANALYTICS - User Data & Export",
            "SOCIAL MEDIA & PUBLISHING - Consider exceptions to maintenance mode",
            "SOCIAL MEDIA & PUBLISHING - Phase 1: Immediate (Bugs Only)"}
      [] OTHER ->
           {"AI & AUTOMATION",
            "ANALYTICS & REPORTING - ROADMAP REVIEW",
            "CHANNEL-SPECIFIC ENHANCEMENTS - LinkedIn Suite",
            "CHANNEL-SPECIFIC ENHANCEMENTS - YouTube Features",
            "PUBLISHING & CONTENT MANAGEMENT - Channel-Specific Publishing",
            "PUBLISHING & CONTENT MANAGEMENT - Core Publishing Capabilities",
            "USER EXPERIENCE & WORKFLOW"}]

\* the banding rule of the priority test: the label of an overall priority
recommendationFor(overallPriority) ==
  IF overallPriority >= 80 THEN FastTrack
  ELSE IF overallPriority >= 50 THEN STANDARD
  ELSE IF overallPriority >= 25 THEN ON_HOLD
  ELSE LOW

\* the shapes of ticket the model sends: a well-formed one, one with a
\* component that has no name, one whose summary is not a string
Tickets == {"ok", "bad_component", "bad_summary"}

\* getProductContext and estimateEffort call toLowerCase on the summary, on
\* every component name and on every label
TicketTextThrows(ticket) == ticket \in {"bad_component", "bad_summary"}

\* classifyBugOrFeature calls toLowerCase on the summary and the labels only
classifyBugOrFeatureThrows(ticket) == ticket = "bad_summary"

NoResponse ==
  [status |-> 0, kind |-> "none", recommendation |-> JUndef,
   importance |-> JUndef, themes |-> <<>>, confidence |-> 0,
   similarity |-> FALSE, retryAfter |-> 0,
   analysis |-> JUndef, themeModel |-> "undefined", priorityModel |-> JUndef,
   scores |-> JUndef, priority_recommendation |-> JUndef]

NewResult ==
  [modelUsed |-> "null", analysis |-> JNull, theme |-> "null",
   themeModel |-> "null", priorityModel |-> "undefined"]

NoRequest == [method |-> "none", hasKey |-> FALSE, ticket |-> "ok"]

\* the handler's state while it runs: the part of the state an operator of
\* the pipeline reads and returns
Ctx(p, l, c, r, s) ==
  [pc |-> p, logs |-> l, calls |-> c, result |-> r, response |-> s]

Log(c, action) == [c EXCEPT !.logs = Append(@, action)]

RECURSIVE LogAll(_, _)
LogAll(c, actions) ==
  IF actions = <<>> THEN c ELSE LogAll(Log(c, Head(actions)), Tail(actions))

\* a provider call is issued and the handler waits for it; the call record
\* keeps the number of log entries written before the call
Await(c, stage, provider) ==
  [c EXCEPT !.calls = Append(@, [stage |-> stage, provider |-> provider,
                                 outcome |-> "pending", after |-> Len(c.logs)]),
            !.pc = stage \o "_" \o provider]

\* the awaited call has ended
Settle(c, outcome) == [c EXCEPT !.calls[Len(c.calls)].outcome = outcome]

\* (parsed && parsed.scores): parsed is null or an object
HasScores(parsed) == parsed.t # "null" /\ Truthy(Get(parsed, K("scores")))

\* (a ?? b)
Nullish(a, b) == IF a.t \in {"undef", "null"} THEN b ELSE a

\* (a || b)
OrElse(a, b) == IF Truthy(a) THEN a ELSE b

\* analysis?.key
Opt(analysis, key) == IF analysis.t \in {"undef", "null"} THEN JUndef ELSE Get(analysis, key)

\* generateSimilarityGroup: null without similar-features text; substring on
\* a value that is not a string throws
generateSimilarityGroupThrows(analysis) ==
  /\ Truthy(Opt(analysis, K("similar_features")))
  /\ Opt(analysis, K("similar_features")).t # "str"

\* res.status(500).json({status: 'error', ...}) of the handler's catch clause
ErrorResponse(c) ==
  [Log(c, "ERROR") EXCEPT !.pc = "done",
     !.response = [NoResponse EXCEPT !.status = 500, !.kind = "error"]]

(***************************************************************************)
(* The revised handler                                                     *)
(***************************************************************************)
\* mutant: without an analysis the recommendation is 'Not analyzed'
handler_respond_notAnalyzed(c, ticket) ==
  [Log(c, "PROCESSING_COMPLETE") EXCEPT !.pc = "done",
     !.response =
       [NoResponse EXCEPT !.status = 200, !.kind = "success",
          !.recommendation =
            OrElse(Opt(c.result.analysis, K("priority_recommendation")), NOT_ANALYZED),
          !.analysis = c.result.analysis]]

\* handler, lines 156-213: the Jira-friendly response
handler_respond(c, ticket) ==
  LET analysis == c.result.analysis
      c1 == Log(c, "PROCESSING_COMPLETE")
  IN IF classifyBugOrFeatureThrows(ticket) \/ generateSimilarityGroupThrows(analysis)
     THEN ErrorResponse(c1)
     ELSE [c1 EXCEPT !.pc = "done",
            !.response =
              [status |-> 200, kind |-> "success",
               recommendation |-> OrElse(Opt(analysis, K("priority_recommendation")), ON_HOLD),
               importance |-> Nullish(Opt(Opt(analysis, K("scores")), K("overall_priority")), JNum(0)),
               themes |-> IF c.result.theme \in {"null", ""} THEN <<>> ELSE <<c.result.theme>>,
               confidence |-> IF analysis.t # "null" THEN 75 ELSE 0,
               similarity |-> Truthy(Opt(analysis, K("similar_features"))),
               retryAfter |-> 0,
               analysis |-> analysis,
               themeModel |-> c.result.themeModel,
               priorityModel |-> Opt(analysis, K("modelUsed")),
               scores |-> OrElse(Opt(analysis, K("scores")), JEmptyObj),
               priority_recommendation |->
                 OrElse(Opt(analysis, K("priority_recommendation")), NOT_ANALYZED)]]

\* mutant: a failed scoring dispatch leaves priorityModel unset
processTicketWithFullTriage_store_unset(c, analysisResult, ticket) ==
  handler_respond(
    IF HasScores(analysisResult.analysis)
    THEN Log([c EXCEPT !.result.priorityModel = analysisResult.modelUsed,
                       !.result.analysis = analysisResult.analysis],
             "PRIORITY_ANALYSIS_SUCCESS")
    ELSE Log(c, "PRIORITY_ANALYSIS_FAILED"),
    ticket)

\* processTicketWithFullTriage, lines 273-294: the analysis is stored
processTicketWithFullTriage_store(c, analysisResult, ticket) ==
  handler_respond(
    IF HasScores(analysisResult.analysis)
    THEN Log([c EXCEPT !.result.priorityModel = analysisResult.modelUsed,
                       !.result.analysis = analysisResult.analysis],
             "PRIORITY_ANALYSIS_SUCCESS")
    ELSE Log([c EXCEPT !.result.priorityModel = "Failed"], "PRIORITY_ANALYSIS_FAILED"),
    ticket)

\* mutant: the both-failed entry is not written
analyzePriority_bothFailed_silent(c, ticket) ==
  processTicketWithFullTriage_store(
    c, [analysis |-> JNull, modelUsed |-> "None - Both models failed"], ticket)

\* analyzePriority, lines 1418-1419
analyzePriority_bothFailed(c, ticket) ==
  processTicketWithFullTriage_store(
    Log(c, "PRIORITY_ANALYSIS_BOTH_FAILED"),
    [analysis |-> JNull, modelUsed |-> "None - Both models failed"], ticket)

\* mutant: the fallback is never tried
analyzePriority_fallback_never(c, ticket) == analyzePriority_bothFailed(c, ticket)

\* analyzePriority, lines 1369-1376: the fallback to Claude
analyzePriority_fallback(c, ticket) ==
  IF anthropic
  THEN Await(Log(c, "PRIORITY_CLAUDE_ATTEMPT"), "priority", "claude")
  ELSE analyzePriority_bothFailed(c, ticket)

\* mutant: the first scoring call is issued before the prompt is built
analyzePriority_start_callFirst(c, ticket) ==
  IF genAI
  THEN LogAll(Await(c, "priority", "gemini"), <<"EFFORT_ESTIMATION", "PRIORITY_PROMPT_BUILT">>)
  ELSE analyzePriority_fallback(
         LogAll(c, <<"EFFORT_ESTIMATION", "PRIORITY_PROMPT_BUILT">>), ticket)

\* analyzePriority, lines 1203-1348: effort, product context, prompt, and the
\* first provider
analyzePriority_start(c, ticket) ==
  LET c1 == LogAll(c, <<"EFFORT_ESTIMATION", "PRIORITY_PROMPT_BUILT">>) IN
  IF genAI THEN Await(c1, "priority", "gemini")
  ELSE analyzePriority_fallback(c1, ticket)

\* analyzePriority, lines 1348-1366: Gemini's answer
analyzePriority_gemini(c, out, ticket) ==
  IF out.kind # "text"
  THEN analyzePriority_fallback(Log(Settle(c, out.kind), "PRIORITY_GEMINI_FAILED"), ticket)
  ELSE LET parsed == parseAIResponse(TextOf(out.text)).v IN
       IF HasScores(parsed)
       THEN processTicketWithFullTriage_store(
              Log(Settle(c, "accepted"), "PRIORITY_ANALYSIS_SUCCESS"),
              [analysis |-> parsed, modelUsed |-> "Gemini Flash 2.0"], ticket)
       ELSE analyzePriority_fallback(Settle(c, "invalid"), ticket)

\* mutant: a failed Claude call is tried a second time
analyzePriority_claude_retry(c, out, ticket) ==
  IF out.kind # "text" /\ Len(c.calls) < 5
  THEN Await(Log(Settle(c, out.kind), "PRIORITY_CLAUDE_FAILED"), "priority", "claude")
  ELSE analyzePriority_bothFailed(Settle(c, "invalid"), ticket)

\* analyzePriority, lines 1376-1415: Claude's answer
analyzePriority_claude(c, out, ticket) ==
  IF out.kind # "text"
  THEN analyzePriority_bothFailed(
         Log(Settle(c, out.kind), "PRIORITY_CLAUDE_FAILED"), ticket)
  ELSE LET parsed == parseAIResponse(TextOf(out.text)).v
           c1 == LogAll(c, <<"PRIORITY_CLAUDE_RESPONSE", "PRIORITY_CLAUDE_PARSE_RESULT">>)
       IN
       IF HasScores(parsed)
       THEN processTicketWithFullTriage_store(
              Log(Settle(c1, "accepted"), "PRIORITY_ANALYSIS_SUCCESS"),
              [analysis |-> parsed, modelUsed |-> "Claude Sonnet 3.5"], ticket)
       ELSE analyzePriority_bothFailed(
              Log(Settle(c1, "invalid"), "PRIORITY_CLAUDE_PARSE_FAILED"), ticket)

\* mutant: the scoring dispatch skips Gemini when the theme did not come
\* from Gemini
processTicketWithFullTriage_theme_biased(c, themeResult, ticket) ==
  LET c1 == LogAll([c EXCEPT !.result.theme = themeResult.theme,
                             !.result.themeModel = themeResult.modelUsed,
                             !.result.modelUsed = themeResult.modelUsed],
                   <<"THEME_CLASSIFICATION_COMPLETE", "PRIORITY_ANALYSIS_START">>)
  IN IF themeResult.modelUsed = "Gemini Flash 2.0"
     THEN analyzePriority_start(c1, ticket)
     ELSE analyzePriority_fallback(
            LogAll(c1, <<"EFFORT_ESTIMATION", "PRIORITY_PROMPT_BUILT">>), ticket)

\* processTicketWithFullTriage, lines 261-272: the theme is stored and the
\* priority analysis starts
processTicketWithFullTriage_theme(c, themeResult, ticket) ==
  analyzePriority_start(
    LogAll([c EXCEPT !.result.theme = themeResult.theme,
                     !.result.themeModel = themeResult.modelUsed,
                     !.result.modelUsed = themeResult.modelUsed],
           <<"THEME_CLASSIFICATION_COMPLETE", "PRIORITY_ANALYSIS_START">>),
    ticket)

\* classifyTheme, lines 1192-1193
classifyTheme_bothFailed(c, ticket) ==
  processTicketWithFullTriage_theme(
    Log(c, "THEME_CLASSIFICATION_BOTH_FAILED"),
    [theme |-> THEME_NOT_IDENTIFIED, modelUsed |-> "None - Both models failed"],
    ticket)

\* classifyTheme, lines 1174-1176: the fallback to Claude
classifyTheme_fallback(c, ticket) ==
  IF anthropic THEN Await(c, "theme", "claude")
  ELSE classifyTheme_bothFailed(c, ticket)

\* classifyTheme, lines 1160-1171: Gemini's answer (the theme is trimmed text)
classifyTheme_gemini(c, out, ticket) ==
  IF out.kind # "text"
  THEN classifyTheme_fallback(Log(Settle(c, out.kind), "THEME_GEMINI_FAILED"), ticket)
  ELSE processTicketWithFullTriage_theme(
         Log(Settle(c, "accepted"), "THEME_CLASSIFICATION_SUCCESS"),
         [theme |-> out.theme, modelUsed |-> "Gemini Flash 2.0"], ticket)

\* classifyTheme, lines 1174-1189: Claude's answer
classifyTheme_claude(c, out, ticket) ==
  IF out.kind # "text"
  THEN classifyTheme_bothFailed(Log(Settle(c, out.kind), "THEME_CLAUDE_FAILED"), ticket)
  ELSE processTicketWithFullTriage_theme(
         Log(Settle(c, "accepted"), "THEME_CLASSIFICATION_SUCCESS"),
         [theme |-> out.theme, modelUsed |-> "Claude Sonnet 3.5"], ticket)

\* processTicketWithFullTriage, lines 227-260 and 296-300, with the start of
\* classifyTheme (lines 1029-1160): getProductContext runs outside the try
\* blocks of classifyTheme, so its exception lands in the catch clause of
\* processTicketWithFullTriage, which returns the result as it stands
processTicketWithFullTriage(c, ticket) ==
  LET c1 == LogAll(c, <<"PROCESSING_START", "USING_PROVIDED_DATA",
                        "ISSUE_DATA_READY", "THEME_CLASSIFICATION_START">>)
  IN IF TicketTextThrows(ticket) THEN handler_respond(Log(c1, "ERROR"), ticket)
     ELSE IF genAI THEN Await(c1, "theme", "gemini")
     ELSE classifyTheme_fallback(c1, ticket)


\* mutant: a missing issue key is not rejected
handler_noKeyCheck(c, method, hasKey, ticket, admitted) ==
  IF method # "POST" \/ ~admitted
  THEN [c EXCEPT !.pc = "done",
          !.response = [NoResponse EXCEPT !.status = 405, !.kind = "method_not_allowed"]]
  ELSE processTicketWithFullTriage(
         LogAll(c, <<"WEBHOOK_RECEIVED", "WEBHOOK_PARSED">>), ticket)

\* handler of the revised handler, lines 97-154
handler(c, method, hasKey, ticket, admitted) ==
  IF method = "OPTIONS"
  THEN [c EXCEPT !.pc = "done",
          !.response = [NoResponse EXCEPT !.status = 200, !.kind = "preflight"]]
  ELSE IF method # "POST"
  THEN [c EXCEPT !.pc = "done",
          !.response = [NoResponse EXCEPT !.status = 405, !.kind = "method_not_allowed"]]
  ELSE IF ~admitted
  THEN [c EXCEPT !.pc = "done",
          !.response = [NoResponse EXCEPT !.status = 429, !.kind = "rate_limited",
                                          !.retryAfter = 60]]
  ELSE IF ~hasKey THEN ErrorResponse(Log(c, "WEBHOOK_RECEIVED"))
  ELSE processTicketWithFullTriage(
         LogAll(c, <<"WEBHOOK_RECEIVED", "WEBHOOK_PARSED">>), ticket)

(***************************************************************************)
(* The baseline handler (api/triage.js)                                    *)
(***************************************************************************)
\* processTicketWithFullTriage, lines 167-185, and handler, lines 88-99
baseline_respond(c, analysis) ==
  LET c1 == LogAll([c EXCEPT !.result.analysis = analysis],
                   <<IF HasScores(analysis) THEN "ANALYSIS_COMPLETE"
                     ELSE "ANALYSIS_FAILED",
                     "PROCESSING_COMPLETE">>)
  IN [c1 EXCEPT !.pc = "done",
        !.response = [NoResponse EXCEPT !.status = 200, !.kind = "success",
                                        !.analysis = analysis]]

\* callClaudeWithTriage, lines 368-395, and processTicketWithFullTriage,
\* lines 159-164: Claude's answer
baseline_claude(c, out) ==
  IF out.kind = "throw"
  THEN baseline_respond(
         LogAll(Settle(c, "throw"), <<"CLAUDE_ERROR", "BOTH_MODELS_FAILED">>), JNull)
  ELSE IF out.kind = "text" /\ HasScores(baseline_parseAIResponse(TextOf(out.text)).v)
  THEN baseline_respond(
         LogAll([Settle(c, "accepted") EXCEPT !.result.modelUsed = "Claude Sonnet"],
                <<"CLAUDE_RESPONSE", "CLAUDE_PARSE_SUCCESS", "CLAUDE_SUCCESS">>),
         baseline_parseAIResponse(TextOf(out.text)).v)
  ELSE baseline_respond(
         LogAll(Settle(c, IF out.kind = "text" THEN "invalid" ELSE out.kind),
                <<"CLAUDE_RESPONSE", "CLAUDE_FAILED", "BOTH_MODELS_FAILED">>), JNull)

\* processTicketWithFullTriage, lines 155-157, and callClaudeWithTriage,
\* lines 350-366: the fallback to Claude
baseline_fallback(c) ==
  LET c1 == Log(c, "GEMINI_FAILED_TRYING_CLAUDE") IN
  IF ~anthropic
  THEN baseline_respond(LogAll(c1, <<"CLAUDE_IMPORT_ERROR", "BOTH_MODELS_FAILED">>), JNull)
  ELSE Await(c1, "priority", "claude")

\* callGeminiWithTriage, lines 317-346, and processTicketWithFullTriage,
\* lines 149-154: Gemini's answer
baseline_gemini(c, out) ==
  IF out.kind = "throw"
  THEN baseline_fallback(Log(Settle(c, "throw"), "GEMINI_ERROR"))
  ELSE IF out.kind = "text" /\ HasScores(baseline_parseAIResponse(TextOf(out.text)).v)
  THEN baseline_respond(
         LogAll([Settle(c, "accepted") EXCEPT !.result.modelUsed = "Gemini Flash 2.0"],
                <<"GEMINI_RESPONSE", "GEMINI_PARSE_SUCCESS", "GEMINI_SUCCESS">>),
         baseline_parseAIResponse(TextOf(out.text)).v)
  ELSE baseline_fallback(
         LogAll(Settle(c, IF out.kind = "text" THEN "invalid" ELSE out.kind),
                <<"GEMINI_RESPONSE", "GEMINI_FAILED">>))

\* handler, lines 50-87, and processTicketWithFullTriage, lines 113-149
baseline_handler(c, method, hasKey) ==
  IF method = "OPTIONS"
  THEN [c EXCEPT !.pc = "done",
          !.response = [NoResponse EXCEPT !.status = 200, !.kind = "preflight"]]
  ELSE IF method # "POST"
  THEN [c EXCEPT !.pc = "done",
          !.response = [NoResponse EXCEPT !.status = 405, !.kind = "method_not_allowed"]]
  ELSE IF ~hasKey THEN ErrorResponse(Log(c, "WEBHOOK_RECEIVED"))
  ELSE Await(LogAll(c, <<"WEBHOOK_RECEIVED", "WEBHOOK_PARSED", "PROCESSING_START",
                         "USING_PROVIDED_DATA", "ISSUE_DATA_READY", "PROMPT_BUILT",
                         "TRYING_GEMINI">>),
             "priority", "gemini")

(***************************************************************************)
(* Spec: one request through either handler                                *)
(***************************************************************************)
Methods == {"POST", "OPTIONS", "GET"}

\* the times at which the request arrives
ArrivalTimes == {RATE_WINDOW - 1, RATE_WINDOW}

\* what a provider answers to the theme prompt
ThemeAnswers ==
  {"ANALYTICS & REPORTING - Core Analytics", THEME_NOT_IDENTIFIED,
   "Reporting and dashboards", ""}

ThemeOutcomes ==
  {[kind |-> "throw", theme |-> ""]}
  \cup {[kind |-> "text", theme |-> th] : th \in ThemeAnswers}

GoodScores(bi, es, op) == MkScores(bi, JStr("S"), es, JNum(85), JNum(80), op)

Answer(sc, rec, sim) ==
  MkObj(<< <<K("scores"), sc>>, <<K("priority_recommendation"), rec>>,
           <<K("similar_features"), sim>>, <<K("effort_analysis"), JUndef>> >>)

\* what a provider answers to the scoring prompt
PriorityAnswers ==
  { [kind |-> "json_fence", cut |-> 0,
     obj |-> Answer(GoodScores(JNum(90), JNum(80), op), rec, JStr("None"))] :
      op \in {JUndef, JNum(0), JNum(78), JNum(150)},
      rec \in {JStr("Standard"), FastTrack} }
  \cup
  { [kind |-> "raw", cut |-> 0,
     obj |-> Answer(GoodScores(JNum(90), JNum(80), JNum(78)), JStr("Standard"), JNum(7))],
    [kind |-> "raw", cut |-> 0,
     obj |-> Answer(JArr(<<>>), JStr("Standard"), JUndef)],
    [kind |-> "raw", cut |-> 0,
     obj |-> Answer(JUndef, JStr("Standard"), JUndef)],
    [kind |-> "json_fence", cut |-> 1,
     obj |-> Answer(GoodScores(JNum(90), JNum(80), JNum(78)), JStr("Standard"), JUndef)],
    [kind |-> "sorry", cut |-> 0, obj |-> JUndef],
    [kind |-> "empty", cut |-> 0, obj |-> JUndef] }

PriorityOutcomes ==
  {[kind |-> "throw", text |-> NoInput], [kind |-> "nocontent", text |-> NoInput]}
  \cup {[kind |-> "text", text |-> in] : in \in PriorityAnswers}

\* the two runs before the request arrives
IdlePair ==
  /\ runA = Ctx("idle", <<>>, <<>>, NewResult, NoResponse)
  /\ runB = Ctx("idle", <<>>, <<>>, NewResult, NoResponse)

NoSimInput == [theme |-> <<>>, kind |-> "absent", similar |-> <<>>]
SimPending == [done |-> FALSE, threw |-> FALSE, isNull |-> TRUE, text |-> <<>>]
IdleSim == sIn = NoSimInput /\ sOut = SimPending

NoTicket == [summary |-> <<>>, description |-> <<>>, components |-> <<>>]
EffortPending ==
  [done |-> FALSE, effort_size |-> "", effort_score |-> 0, inferred |-> "", maxScore |-> 0]
IdleEffort == eIn = NoTicket /\ eOut = EffortPending

IdleAux == IdlePair /\ IdleSim /\ IdleEffort

IdleMain ==
  /\ rev = "revised" /\ genAI = TRUE /\ anthropic = TRUE
  /\ requestCounts = <<>> /\ now = 0
  /\ req = NoRequest /\ pc = "off"
  /\ logs = <<>> /\ calls = <<>>
  /\ result = NewResult /\ response = NoResponse

Init ==
  /\ rev \in {"baseline", "revised"}
  /\ genAI \in BOOLEAN
  /\ anthropic \in BOOLEAN
  \* the baseline constructs both clients when the module is loaded
  /\ rev = "baseline" => genAI /\ anthropic
  \* the revised handler may have admitted requests before this one
  /\ requestCounts \in {<<>>, [i \in 1..RATE_LIMIT |-> 0]}
  /\ rev = "baseline" => requestCounts = <<>>
  /\ now = 0
  /\ req = NoRequest
  /\ pc = "idle"
  /\ logs = <<>>
  /\ calls = <<>>
  /\ result = NewResult
  /\ response = NoResponse
  /\ IdleCalc
  /\ IdleParse
  /\ IdleRate
  /\ IdleAux

CurCtx == Ctx(pc, logs, calls, result, response)

Commit(c) ==
  /\ pc' = c.pc
  /\ logs' = c.logs
  /\ calls' = c.calls
  /\ result' = c.result
  /\ response' = c.response

\* a request arrives
HandleRequest ==
  /\ pc = "idle"
  /\ \E method \in Methods, hasKey \in BOOLEAN, ticket \in Tickets, at \in ArrivalTimes :
       /\ req' = [method |-> method, hasKey |-> hasKey, ticket |-> ticket]
       /\ now' = at
       /\ IF rev = "revised"
          THEN /\ requestCounts' = IF method = "POST"
                                   THEN checkRateLimit(requestCounts, at).requests
                                   ELSE requestCounts
               /\ Commit(handler(CurCtx, method, hasKey, ticket,
                                 checkRateLimit(requestCounts, at).allowed))
          ELSE /\ UNCHANGED requestCounts
               /\ Commit(baseline_handler(CurCtx, method, hasKey))
  /\ UNCHANGED <<envVars, calcVars, parseVars, rateVars, auxVars>>

ThemeGeminiReturns ==
  /\ pc = "theme_gemini"
  /\ \E out \in ThemeOutcomes : Commit(classifyTheme_gemini(CurCtx, out, req.ticket))
  /\ UNCHANGED <<envVars, requestCounts, now, req, calcVars, parseVars, rateVars, auxVars>>

ThemeClaudeReturns ==
  /\ pc = "theme_claude"
  /\ \E out \in ThemeOutcomes : Commit(classifyTheme_claude(CurCtx, out, req.ticket))
  /\ UNCHANGED <<envVars, requestCounts, now, req, calcVars, parseVars, rateVars, auxVars>>

PriorityGeminiReturns ==
  /\ pc = "priority_gemini"
  /\ \E out \in PriorityOutcomes :
       Commit(IF rev = "revised" THEN analyzePriority_gemini(CurCtx, out, req.ticket)
              ELSE baseline_gemini(CurCtx, out))
  /\ UNCHANGED <<envVars, requestCounts, now, req, calcVars, parseVars, rateVars, auxVars>>

PriorityClaudeReturns ==
  /\ pc = "priority_claude"
  /\ \E out \in PriorityOutcomes :
       Commit(IF rev = "revised" THEN analyzePriority_claude(CurCtx, out, req.ticket)
              ELSE baseline_claude(CurCtx, out))
  /\ UNCHANGED <<envVars, requestCounts, now, req, calcVars, parseVars, rateVars, auxVars>>

Next ==
  \/ HandleRequest
  \/ ThemeGeminiReturns
  \/ ThemeClaudeReturns
  \/ PriorityGeminiReturns
  \/ PriorityClaudeReturns

Spec == Init /\ [][Next]_vars

(***************************************************************************)
(* SpecCalc: calculateOverallPriority applied to a score set               *)
(***************************************************************************)

Calculate ==
  /\ ~cOut.done
  /\ cScores \in CalcScoreSets
  /\ cOut' = [done |-> TRUE, n |-> calculateOverallPriority(cScores)]
  /\ UNCHANGED <<cScores, parseVars, mainVars, rateVars, auxVars>>

InitCalc ==
  /\ cScores \in CalcScoreSets
  /\ cOut = CalcPending
  /\ IdleParse
  /\ IdleMain
  /\ IdleRate
  /\ IdleAux

NextCalc == Calculate

SpecCalc == InitCalc /\ [][NextCalc]_vars

(***************************************************************************)
(* SpecParse: both revisions of parseAIResponse applied to a text          *)
(***************************************************************************)
ParseAsRevised ==
  /\ ~pOut.done
  /\ pIn.kind # "none"
  /\ pOut' = [done |-> TRUE, by |-> "revised", r |-> parseAIResponse(TextOf(pIn))]
  /\ UNCHANGED <<pIn, calcVars, mainVars, rateVars, auxVars>>

ParseAsBaseline ==
  /\ ~pOut.done
  /\ pIn.kind # "none"
  /\ pOut' = [done |-> TRUE, by |-> "baseline",
              r |-> baseline_parseAIResponse(TextOf(pIn))]
  /\ UNCHANGED <<pIn, calcVars, mainVars, rateVars, auxVars>>

InitParse ==
  /\ pIn \in ParseInputs
  /\ pOut = ParsePending
  /\ IdleCalc
  /\ IdleMain
  /\ IdleRate
  /\ IdleAux

NextParse == ParseAsRevised \/ ParseAsBaseline

SpecParse == InitParse /\ [][NextParse]_vars

(***************************************************************************)
(* SpecRate: the requests of one client address against the rate limiter  *)
(***************************************************************************)
\* the most requests the address sends
MaxArrivals == 12

\* the instants at which requests arrive: the start of a window, just after
\* it, and the instants around the end of the window
ArrivalInstants == {0, 1, RATE_WINDOW - 1, RATE_WINDOW, RATE_WINDOW + 1}

\* mutant: the instant of a rejected request is stored as well
RateArrive_recordsRejected ==
  /\ Len(arrivals) < MaxArrivals
  /\ \E at \in ArrivalInstants :
       /\ at >= now
       /\ LET limit == checkRateLimit(requestCounts, at)
              c == handler(Ctx("idle", <<>>, <<>>, NewResult, NoResponse),
                           "POST", TRUE, "ok", limit.allowed)
          IN /\ now' = at
             /\ requestCounts' = IF limit.allowed THEN limit.requests
                                ELSE Append(limit.requests, at)
             /\ arrivals' = Append(arrivals,
                   [at |-> at, status |-> c.response.status,
                    retryAfter |-> c.response.retryAfter,
                    started |-> c.pc # "done",
                    work |-> c.logs # <<>> \/ c.calls # <<>>])
             /\ inflight' = inflight + (IF c.pc # "done" THEN 1 ELSE 0)
  /\ UNCHANGED <<envVars, req, pc, logs, calls, result, response, calcVars, parseVars,
                 auxVars>>

\* a POST with an issue key arrives: the handler runs up to its first await,
\* or to its 429 answer
RateArrive ==
  /\ Len(arrivals) < MaxArrivals
  /\ \E at \in ArrivalInstants :
       /\ at >= now
       /\ LET limit == checkRateLimit(requestCounts, at)
              c == handler(Ctx("idle", <<>>, <<>>, NewResult, NoResponse),
                           "POST", TRUE, "ok", limit.allowed)
          IN /\ now' = at
             /\ requestCounts' = limit.requests
             /\ arrivals' = Append(arrivals,
                   [at |-> at, status |-> c.response.status,
                    retryAfter |-> c.response.retryAfter,
                    started |-> c.pc # "done",
                    work |-> c.logs # <<>> \/ c.calls # <<>>])
             /\ inflight' = inflight + (IF c.pc # "done" THEN 1 ELSE 0)
  /\ UNCHANGED <<envVars, req, pc, logs, calls, result, response, calcVars, parseVars,
                 auxVars>>

\* the triage of an admitted request ends and its response is sent
RateFinish ==
  /\ inflight > 0
  /\ inflight' = inflight - 1
  /\ UNCHANGED <<arrivals, mainVars, calcVars, parseVars, auxVars>>

InitRate ==
  /\ rev = "revised" /\ genAI = TRUE /\ anthropic = TRUE
  /\ requestCounts = <<>> /\ now = 0
  /\ req = NoRequest /\ pc = "idle"
  /\ logs = <<>> /\ calls = <<>>
  /\ result = NewResult /\ response = NoResponse
  /\ IdleRate
  /\ IdleAux
  /\ IdleCalc
  /\ IdleParse

NextRate == RateArrive \/ RateFinish

SpecRate == InitRate /\ [][NextRate]_vars

(***************************************************************************)
(* SpecPair: two runs of the revised handler on the same request. The      *)
(* providers answer the theme prompt of each run independently; the        *)
(* scoring prompt is built from the ticket alone (analyzePriority takes    *)
(* the issue and the logger), so the two runs receive the same answers to  *)
(* it.                                                                     *)
(***************************************************************************)
ThemePcs == {"theme_gemini", "theme_claude"}
PriorityPcs == {"priority_gemini", "priority_claude"}

\* the awaited theme call of run r returns
ThemeReturns(r, out, ticket) ==
  IF r.pc = "theme_gemini" THEN classifyTheme_gemini(r, out, ticket)
  ELSE classifyTheme_claude(r, out, ticket)

\* the awaited scoring call of run r returns
PriorityReturns(r, out, ticket) ==
  IF r.pc = "priority_gemini" THEN analyzePriority_gemini(r, out, ticket)
  ELSE analyzePriority_claude(r, out, ticket)

\* the request arrives at both runs
PairStart ==
  /\ runA.pc = "idle" /\ runB.pc = "idle"
  /\ runA' = handler(runA, "POST", TRUE, req.ticket, TRUE)
  /\ runB' = handler(runB, "POST", TRUE, req.ticket, TRUE)
  /\ UNCHANGED <<mainVars, calcVars, parseVars, rateVars, simVars, effortVars>>

PairThemeA ==
  /\ runA.pc \in ThemePcs
  /\ \E out \in ThemeOutcomes : runA' = ThemeReturns(runA, out, req.ticket)
  /\ UNCHANGED <<runB, mainVars, calcVars, parseVars, rateVars, simVars, effortVars>>

PairThemeB ==
  /\ runB.pc \in ThemePcs
  /\ \E out \in ThemeOutcomes : runB' = ThemeReturns(runB, out, req.ticket)
  /\ UNCHANGED <<runA, mainVars, calcVars, parseVars, rateVars, simVars, effortVars>>

\* the scoring calls of the two runs return the same outcome
PairPriority ==
  /\ runA.pc \in PriorityPcs /\ runB.pc \in PriorityPcs
  /\ \E out \in PriorityOutcomes :
       /\ runA' = PriorityReturns(runA, out, req.ticket)
       /\ runB' = PriorityReturns(runB, out, req.ticket)
  /\ UNCHANGED <<mainVars, calcVars, parseVars, rateVars, simVars, effortVars>>

InitPair ==
  /\ rev = "revised"
  /\ genAI \in BOOLEAN
  /\ anthropic \in BOOLEAN
  /\ requestCounts = <<>> /\ now = 0
  /\ req \in {[method |-> "POST", hasKey |-> TRUE, ticket |-> tk] : tk \in Tickets}
  /\ pc = "off"
  /\ logs = <<>> /\ calls = <<>>
  /\ result = NewResult /\ response = NoResponse
  /\ IdlePair
  /\ IdleSim
  /\ IdleEffort
  /\ IdleCalc
  /\ IdleParse
  /\ arrivals = <<>> /\ inflight = 0

NextPair == PairStart \/ PairThemeA \/ PairThemeB \/ PairPriority

SpecPair == InitPair /\ [][NextPair]_vars

(***************************************************************************)
(* SpecSim: generateSimilarityGroup. Strings are sequences of UTF-16 code  *)
(* units; a 32-bit integer is kept as two 16-bit halves [hi, lo], its      *)
(* two's complement bit pattern.                                           *)
(***************************************************************************)
Limb == 65536

\* (a << 5): the low 32 bits of a * 32
ShiftLeft5(a) ==
  LET t == a.lo * 32
  IN [hi |-> (a.hi * 32 + t \div Limb) % Limb, lo |-> t % Limb]

\* ((a << 5) - a + b.charCodeAt(0)) & 0xFFFFFFFF: the double (a << 5) - a +
\* code is exact, and & 0xFFFFFFFF keeps its low 32 bits as an int32
HashStep(a, code) ==
  LET x == ShiftLeft5(a)
      t == x.lo - a.lo + code
  IN [hi |-> (x.hi - a.hi + t \div Limb) % Limb, lo |-> t % Limb]

\* (base + similar).split('').reduce(..., 0), started from a; a is an int32
\* pattern, so the test of a.hi never holds: it makes a a value before the
\* next character is taken
RECURSIVE Reduce(_, _)
Reduce(chars, a) ==
  IF chars = <<>> \/ a.hi \notin 0..(Limb - 1) THEN a
  ELSE Reduce(Tail(chars), HashStep(a, Head(chars)))

\* the number an int32 bit pattern stands for: sign and magnitude
Int32Value(a) ==
  IF a.hi >= Limb \div 2
  THEN [neg |-> TRUE,
        mag |-> [hi |-> (Limb - a.hi - (IF a.lo = 0 THEN 0 ELSE 1)) % Limb,
                 lo |-> (Limb - a.lo) % Limb]]
  ELSE [neg |-> FALSE, mag |-> a]

MathAbs(n) == [n EXCEPT !.neg = FALSE]

DigitChars == <<"0", "1", "2", "3", "4", "5", "6", "7", "8", "9">>

\* the decimal digits of a magnitude, by long division
RECURSIVE Decimal(_)
Decimal(m) ==
  LET t == (m.hi % 10) * Limb + m.lo
  IN IF m.hi = 0 /\ m.lo < 10 THEN <<DigitChars[m.lo + 1]>>
     ELSE Append(Decimal([hi |-> m.hi \div 10, lo |-> t \div 10]), DigitChars[(t % 10) + 1])

\* Number.prototype.toString()
NumberToString(n) == (IF n.neg THEN <<"-">> ELSE <<>>) \o Decimal(n.mag)

\* String.prototype.padStart(targetLength, '0')
RECURSIVE padStart(_, _)
padStart(s, targetLength) ==
  IF Len(s) >= targetLength THEN s ELSE padStart(<<"0">> \o s, targetLength)

\* 'unknown'
UNKNOWN == <<117, 110, 107, 110, 111, 119, 110>>

\* String.prototype.substring(0, n)
Substring0(s, n) == SubSeq(s, 1, IF Len(s) < n THEN Len(s) ELSE n)

SIM_PREFIX == <<"S", "I", "M", "-">>

\* mutant: the hash is formatted without Math.abs
generateSimilarityGroup_signed(in) ==
  IF in.kind = "absent" \/ (in.kind = "text" /\ in.similar = <<>>)
  THEN [done |-> TRUE, threw |-> FALSE, isNull |-> TRUE, text |-> <<>>]
  ELSE IF in.kind # "text"
  THEN [done |-> TRUE, threw |-> TRUE, isNull |-> FALSE, text |-> <<>>]
  ELSE LET base == IF in.theme = <<>> THEN UNKNOWN ELSE in.theme
           similar == Substring0(in.similar, 20)
           hash == Reduce(base \o similar, [hi |-> 0, lo |-> 0])
       IN [done |-> TRUE, threw |-> FALSE, isNull |-> FALSE,
           text |-> SIM_PREFIX \o padStart(NumberToString(Int32Value(hash)), 3)]

\* generateSimilarityGroup(analysis, theme), lines 1479-1491; in.kind tells
\* what analysis?.similar_features is: absent (or analysis is null), a text,
\* or a non-zero number, on which substring is not a function
generateSimilarityGroup(in) ==
  IF in.kind = "absent" \/ (in.kind = "text" /\ in.similar = <<>>)
  THEN [done |-> TRUE, threw |-> FALSE, isNull |-> TRUE, text |-> <<>>]
  ELSE IF in.kind # "text"
  THEN [done |-> TRUE, threw |-> TRUE, isNull |-> FALSE, text |-> <<>>]
  ELSE LET base == IF in.theme = <<>> THEN UNKNOWN ELSE in.theme
           similar == Substring0(in.similar, 20)
           hash == Reduce(base \o similar, [hi |-> 0, lo |-> 0])
       IN [done |-> TRUE, threw |-> FALSE, isNull |-> FALSE,
           text |-> SIM_PREFIX \o padStart(NumberToString(MathAbs(Int32Value(hash))), 3)]

\* characters of the similar-features text beyond the 20 that are hashed
MaxExtra == 1

Rep(code, n) == [i \in 1..n |-> code]

\* theme labels: none, one character, 'ANALYTICS', four times U+FFFF
SimThemes ==
  {<<>>, <<1>>, <<65>>, <<65, 78, 65, 76, 89, 84, 73, 67, 83>>, Rep(65535, 4)}

SimTexts ==
  {Rep(code, n) : code \in {1, 97, 65535}, n \in {0, 1, 2, 7} \cup (19..(20 + MaxExtra))}
  \cup {Rep(97, n) \o <<98>> : n \in 18..(19 + MaxExtra)}

SimInputs ==
  {[theme |-> th, kind |-> "text", similar |-> s] : th \in SimThemes, s \in SimTexts}
  \cup {[theme |-> th, kind |-> k, similar |-> <<>>] :
           th \in SimThemes, k \in {"absent", "number"}}

GenerateSimilarityGroup ==
  /\ ~sOut.done
  /\ sOut' = generateSimilarityGroup(sIn)
  /\ UNCHANGED <<sIn, mainVars, calcVars, parseVars, rateVars, pairVars, effortVars>>

InitSim ==
  /\ sIn \in SimInputs
  /\ sOut = SimPending
  /\ IdleMain
  /\ IdleCalc
  /\ IdleParse
  /\ IdleRate
  /\ IdlePair
  /\ IdleEffort

NextSim == GenerateSimilarityGroup

SpecSim == InitSim /\ [][NextSim]_vars

(***************************************************************************)
(* SpecEffort: estimateEffort. A text is the sequence of its words, "nl"   *)
(* standing for a line break; the words of a text are separated by single  *)
(* spaces.                                                                 *)
(***************************************************************************)
\* String.prototype.toLowerCase() on one word
LowerWord(w) ==
  CASE w = "Add" -> "add" [] w = "Fix" -> "fix" [] w = "Security" -> "security"
    [] w = "Complete" -> "complete" [] w = "New" -> "new" [] w = "Debug" -> "debug"
    [] w = "Major" -> "major" [] w = "Users" -> "users" [] w = "This" -> "this"
    [] w = "UI" -> "ui" [] w = "User" -> "user" [] w = "Interface" -> "interface"
    [] w = "Dashboard" -> "dashboard" [] w = "API" -> "api"
    [] w = "Reporting" -> "reporting" [] w = "Please" -> "please"
    [] w = "Integrate" -> "integrate"
    [] OTHER -> w

toLowerCase(text) == [i \in 1..Len(text) |-> LowerWord(text[i])]

\* the words of the indicator table that occur inside a word of the tickets
SubWords(w) ==
  CASE w = "settings" -> {"setting"}
    [] w = "debug" -> {"bug"}
    [] w = "prefix" -> {"fix"}
    [] w = "context" -> {"text"}
    [] w = "reporting" -> {"report"}
    [] w = "services" -> {"service", "services"}
    [] OTHER -> {w}

\* String.prototype.includes(keyword): a keyword of one word occurs inside a
\* word of the text, a keyword of two words as two neighbouring words
includes(text, keyword) ==
  IF Len(keyword) = 1
  THEN \E i \in 1..Len(text) : keyword[1] \in SubWords(text[i])
  ELSE \E i \in 1..(Len(text) - 1) : text[i] = keyword[1] /\ text[i + 1] = keyword[2]

\* new RegExp('a.*b', 'i').test(text): a, later b, no line break in between
RegExpTest(pattern, text) ==
  \E i, j \in 1..Len(text) :
    /\ i < j
    /\ pattern[1] \in SubWords(text[i])
    /\ pattern[2] \in SubWords(text[j])
    /\ \A k \in (i + 1)..(j - 1) : text[k] # "nl"

\* lines 643-674; a pattern 'a.*b' is the pair <<a, b>>
effortIndicators ==
  [ XS |-> [keywords |-> << <<"config">>, <<"setting">>, <<"toggle">>, <<"button">>,
               <<"styling">>, <<"color">>, <<"text">>, <<"minor">>, <<"small">>, <<"simple">> >>,
           patterns |-> << <<"fix", "button">>, <<"change", "color">>, <<"update", "text">>,
                        <<"add", "toggle">> >>,
           score |-> 100],
    S |-> [keywords |-> << <<"widget">>, <<"component">>, <<"api">>, <<"endpoint">>,
                 <<"integration">>, <<"moderate">>, <<"medium">> >>,
           patterns |-> << <<"add", "widget">>, <<"new", "api">>, <<"create", "component">>,
                        <<"integrate", "service">> >>,
           score |-> 80],
    M |-> [keywords |-> << <<"dashboard">>, <<"report">>, <<"workflow">>, <<"complex">>,
                 <<"multiple">>, <<"major">> >>,
           patterns |-> << <<"new", "dashboard">>, <<"create", "workflow">>,
                        <<"build", "report">>, <<"multiple", "services">> >>,
           score |-> 60],
    L |-> [keywords |-> << <<"architecture">>, <<"migration">>, <<"platform">>,
                 <<"infrastructure">>, <<"large">> >>,
           patterns |-> << <<"architectural", "change">>, <<"platform", "migration">>,
                        <<"infrastructure", "update">> >>,
           score |-> 40],
    XL |-> [keywords |-> << <<"rewrite">>, <<"overhaul">>, <<"new", "product">>,
                 <<"major", "platform">>, <<"enterprise">> >>,
           patterns |-> << <<"rewrite", "system">>, <<"new", "product">>,
                        <<"major", "overhaul">>, <<"enterprise", "feature">> >>,
           score |-> 20] ]

\* Object.entries(effortIndicators): insertion order
EffortOrder == <<"XS", "S", "M", "L", "XL">>

\* lines 682-700: the score of one bucket
BucketScore(indicators, summary, description, components) ==
  LET keywordMatches ==
        SelectSeq(indicators.keywords,
                  LAMBDA keyword : includes(summary, keyword) \/ includes(description, keyword))
      patternMatches ==
        SelectSeq(indicators.patterns,
                  LAMBDA pattern : RegExpTest(pattern, summary) \/ RegExpTest(pattern, description))
      componentMatches ==
        SelectSeq(components,
                  LAMBDA comp : \E k \in 1..Len(indicators.keywords) :
                                  includes(comp, indicators.keywords[k]))
  IN Len(keywordMatches) * 10 + Len(patternMatches) * 15 + Len(componentMatches) * 5

\* lines 677-711: the loop over the buckets, from bucket i on
RECURSIVE ScanBuckets(_, _, _, _, _, _)
ScanBuckets(i, maxScore, estimatedEffort, summary, description, components) ==
  IF i > Len(EffortOrder) THEN [maxScore |-> maxScore, estimatedEffort |-> estimatedEffort]
  ELSE LET score == BucketScore(effortIndicators[EffortOrder[i]],
                                summary, description, components)
       IN IF score > maxScore
          THEN ScanBuckets(i + 1, score, EffortOrder[i], summary, description, components)
          ELSE ScanBuckets(i + 1, maxScore, estimatedEffort, summary, description, components)

\* lines 714-728: the overrides
OverrideEffort(estimatedEffort, summary) ==
  LET has(w) == includes(summary, <<w>>)
      afterFix == IF has("bug") \/ has("fix")
                  THEN IF has("minor") \/ has("small") THEN "XS"
                       ELSE IF has("critical") \/ has("major") THEN "M"
                       ELSE estimatedEffort
                  ELSE estimatedEffort
  IN IF has("security") \/ has("compliance") THEN "S" ELSE afterFix

\* mutant: the score is read from the table before the overrides
estimateEffort_scoreBeforeOverride(issue) ==
  LET summary == toLowerCase(issue.summary)
      description == toLowerCase(issue.description)
      components == [i \in 1..Len(issue.components) |-> toLowerCase(issue.components[i])]
      scan == ScanBuckets(1, 0, "M", summary, description, components)
      estimatedEffort == OverrideEffort(scan.estimatedEffort, summary)
  IN [done |-> TRUE, effort_size |-> estimatedEffort,
      effort_score |-> effortIndicators[scan.estimatedEffort].score,
      inferred |-> scan.estimatedEffort, maxScore |-> scan.maxScore]

\* estimateEffort(issue, logger), lines 636-745; inferred is the bucket the
\* loop chose, maxScore the value logged with EFFORT_ESTIMATION
estimateEffort(issue) ==
  LET summary == toLowerCase(issue.summary)
      description == toLowerCase(issue.description)
      components == [i \in 1..Len(issue.components) |-> toLowerCase(issue.components[i])]
      scan == ScanBuckets(1, 0, "M", summary, description, components)
      estimatedEffort == OverrideEffort(scan.estimatedEffort, summary)
  IN [done |-> TRUE, effort_size |-> estimatedEffort,
      effort_score |-> effortIndicators[estimatedEffort].score,
      inferred |-> scan.estimatedEffort, maxScore |-> scan.maxScore]

\* the summary of the second ticket of test-api.js
DARK_MODE_TITLE == <<"Add", "dark", "mode", "toggle", "to", "user", "preferences">>

\* its description and component
DARK_MODE_DESCRIPTION ==
  <<"Users", "have", "requested", "a", "dark", "mode", "option", "for", "better",
    "visibility", "in", "low-light", "environments.", "This", "would", "be", "a",
    "simple", "UI", "enhancement.">>

MockTicket ==
  [summary |-> DARK_MODE_TITLE, description |-> DARK_MODE_DESCRIPTION,
   components |-> << <<"User", "Interface">> >>]

TicketSummaries ==
  { DARK_MODE_TITLE,
    <<>>,
    <<"Fix", "minor", "bug", "in", "export", "button">>,
    <<"Fix", "critical", "dashboard", "widget">>,
    <<"Security", "review", "of", "platform", "migration">>,
    <<"Complete", "rewrite", "of", "reporting", "system", "for", "enterprise">>,
    <<"New", "settings", "dashboard">>,
    <<"Debug", "prefix", "context">>,
    <<"Major", "platform", "overhaul">>,
    <<"Fix", "critical", "security", "vulnerability", "in", "authentication">> }

TicketDescriptions ==
  { DARK_MODE_DESCRIPTION,
    <<>>,
    <<"Complete", "rewrite", "and", "overhaul", "of", "the", "enterprise", "architecture">>,
    <<"Please", "fix", "nl", "the", "button", "color">>,
    <<"Integrate", "payment", "service", "api", "with", "multiple", "services">> }

TicketComponents ==
  { <<>>, << <<"User", "Interface">> >>,
    << <<"Dashboard", "API">>, <<"Reporting">> >> }

EffortInputs ==
  {[summary |-> s, description |-> d, components |-> c] :
     s \in TicketSummaries, d \in TicketDescriptions, c \in TicketComponents}

EstimateEffort ==
  /\ ~eOut.done
  /\ eOut' = estimateEffort(eIn)
  /\ UNCHANGED <<eIn, mainVars, calcVars, parseVars, rateVars, pairVars, simVars>>

InitEffort ==
  /\ eIn \in EffortInputs
  /\ eOut = EffortPending
  /\ IdleMain
  /\ IdleCalc
  /\ IdleParse
  /\ IdleRate
  /\ IdlePair
  /\ IdleSim

NextEffort == EstimateEffort

SpecEffort == InitEffort /\ [][NextEffort]_vars

(***************************************************************************)
(* Properties                                                              *)
(***************************************************************************)
CallIdx(stage, provider) ==
  {i \in 1..Len(calls) : calls[i].stage = stage /\ calls[i].provider = provider}

Attempts(stage, provider) == Cardinality(CallIdx(stage, provider))

FailedOutcomes == {"throw", "nocontent", "invalid"}

ProviderThrew(stage, provider) ==
  \E i \in CallIdx(stage, provider) : calls[i].outcome = "throw"

ProviderFailed(stage, provider) ==
  \E i \in CallIdx(stage, provider) : calls[i].outcome \in FailedOutcomes

LogCount(action) == Cardinality({i \in 1..Len(logs) : logs[i] = action})

BothFailedEntry ==
  IF rev = "revised" THEN "PRIORITY_ANALYSIS_BOTH_FAILED" ELSE "BOTH_MODELS_FAILED"

PerProviderFailureEntries ==
  {"PRIORITY_GEMINI_FAILED", "PRIORITY_CLAUDE_FAILED", "PRIORITY_CLAUDE_PARSE_FAILED",
   "GEMINI_ERROR", "GEMINI_FAILED", "CLAUDE_ERROR", "CLAUDE_FAILED"}

\* C1 as claimed: whenever the Gemini call of the scoring dispatch has thrown,
\* Claude is attempted exactly once in that dispatch.
C1_SecondaryExactlyOnce ==
  ProviderThrew("priority", "gemini") => Attempts("priority", "claude") = 1

\* C1 as amended: whenever the Gemini call of the scoring dispatch has thrown,
\* Claude is attempted exactly once if the Claude client was initialised, and
\* not at all if it was not.
C1_SecondaryOnceIfInitialised ==
  ProviderThrew("priority", "gemini") =>
    Attempts("priority", "claude") = (IF anthropic THEN 1 ELSE 0)

C1_Witness ==
  /\ pc = "done" /\ rev = "revised"
  /\ ProviderThrew("priority", "gemini")
  /\ Attempts("priority", "claude") = 1

\* C2: when both providers have failed in the scoring dispatch, by an
\* exception or by an answer that does not parse into a valid analysis, the
\* dispatch yields no analysis, the request still ends with the success
\* response and no ERROR entry, and the log holds one both-failed entry whose
\* name is none of the per-provider failure entries.
C2_BothFailedIsNullAndLogged ==
  (ProviderFailed("priority", "gemini") /\ ProviderFailed("priority", "claude")) =>
    /\ pc = "done"
    /\ result.analysis = JNull
    /\ response.status = 200 /\ response.analysis = JNull
    /\ LogCount("ERROR") = 0
    /\ LogCount(BothFailedEntry) = 1
    /\ BothFailedEntry \notin PerProviderFailureEntries
    /\ rev = "revised" => result.priorityModel = "Failed"

C2_Witness ==
  /\ pc = "done" /\ rev = "revised"
  /\ ProviderThrew("priority", "gemini")
  /\ \E i \in CallIdx("priority", "claude") : calls[i].outcome = "invalid"
  /\ LogCount("PRIORITY_ANALYSIS_BOTH_FAILED") = 1

Stages == {"theme", "priority"}

\* the calls of a dispatch stop at a failed secondary
FailedSecondaryIsLast(stage) ==
  \A i \in CallIdx(stage, "claude") :
    calls[i].outcome \in FailedOutcomes =>
      \A k \in 1..Len(calls) : k > i => calls[k].stage # stage

\* C3 as claimed: in each dispatch each provider is called at most once, Claude
\* is called only after Gemini has failed in the same dispatch, a failed
\* Claude call is the last call of its dispatch, and a request issues at most
\* four provider calls.
C3_NoRetry ==
  /\ \A stage \in Stages :
       /\ Attempts(stage, "gemini") <= 1
       /\ Attempts(stage, "claude") <= 1
       /\ \A i \in CallIdx(stage, "claude") :
            \E j \in CallIdx(stage, "gemini") :
              j < i /\ calls[j].outcome \in FailedOutcomes
       /\ FailedSecondaryIsLast(stage)
  /\ Len(calls) <= 4

\* C3 as amended: the same, except that Claude is also called, without any
\* Gemini call in the dispatch, when the Gemini client was not initialised.
C3_NoRetryUnlessPrimaryAbsent ==
  /\ \A stage \in Stages :
       /\ Attempts(stage, "gemini") <= 1
       /\ Attempts(stage, "claude") <= 1
       /\ \A i \in CallIdx(stage, "claude") :
            \/ \E j \in CallIdx(stage, "gemini") :
                 j < i /\ calls[j].outcome \in FailedOutcomes
            \/ ~genAI /\ Attempts(stage, "gemini") = 0
       /\ genAI => (Attempts(stage, "claude") = 1 => Attempts(stage, "gemini") = 1)
       /\ FailedSecondaryIsLast(stage)
  /\ Len(calls) <= 4

C3_Witness ==
  /\ pc = "done" /\ Len(calls) = 4
  /\ ProviderFailed("theme", "claude")
  /\ ProviderFailed("priority", "claude")

\* C8 as claimed, for the outcomes in which a provider's analysis was accepted:
\* scores.overall_priority of the outcome is an integer in [0,100] and the
\* top-level importance carries the same value.
C8_OverallPriorityInRange ==
  (pc = "done" /\ rev = "revised" /\ response.kind = "success"
     /\ result.analysis # JNull) =>
    /\ Get(response.scores, K("overall_priority")).t = "num"
    /\ Get(response.scores, K("overall_priority")).n \in 0..100
    /\ response.importance = Get(response.scores, K("overall_priority"))

\* the text handed to JSON.parse by the revision that parsed the input
ParsedData ==
  JsonParse(IF pOut.by = "revised" THEN RepairBraces(ExtractJsonStr(TextOf(pIn)))
            ELSE ExtractJsonStr(TextOf(pIn)))

\* C4: parseAIResponse returns null or an object that has a scores and a
\* priority_recommendation property; when the parsed data lacks either one the
\* result is null.
C4_NullOrBothFields ==
  pOut.done =>
    /\ ~pOut.r.threw
    /\ \/ pOut.r.v = JNull
       \/ /\ pOut.r.v.t = "obj"
          /\ HasKey(pOut.r.v, K("scores"))
          /\ HasKey(pOut.r.v, K("priority_recommendation"))
    /\ (ParsedData.ok /\ (~HasKey(ParsedData.v, K("scores"))
                          \/ ~HasKey(ParsedData.v, K("priority_recommendation"))))
         => pOut.r.v = JNull

C4_Witness ==
  /\ pOut.done /\ pIn.kind = "raw" /\ pIn.cut = 0
  /\ Get(pIn.obj, K("scores")).t = "obj"
  /\ Truthy(Get(Get(pIn.obj, K("scores")), K("overall_priority")))
  /\ ~HasKey(pIn.obj, K("priority_recommendation"))
  /\ pOut.r.v = JNull

ScoreNames ==
  {K("business_impact"), K("effort_score"), K("strategic_fit"),
   K("cross_client_value"), K("overall_priority")}

\* a well-formed analysis: every score an integer in [0,100], a known effort
\* size, a known label, plain text for the similar-features note
WellFormedAnalysis(o) ==
  /\ o.t = "obj"
  /\ Get(o, K("scores")).t = "obj"
  /\ \A name \in ScoreNames :
       /\ Get(Get(o, K("scores")), name).t = "num"
       /\ Get(Get(o, K("scores")), name).n \in 0..100
  /\ effortScores(Get(Get(o, K("scores")), K("effort_size"))) # 0
  /\ Get(o, K("priority_recommendation")) \in {JStr("Standard"), FastTrack}
  /\ Get(o, K("similar_features")) \in {JUndef, JStr("None")}

\* C5 as claimed: a well-formed analysis, serialized and wrapped in a fenced
\* code block, is returned by parseAIResponse deep-equal to the original.
C5_RoundTrip ==
  (pOut.done /\ pIn.kind \in {"json_fence", "fence"} /\ pIn.cut = 0
     /\ WellFormedAnalysis(pIn.obj)) =>
    pOut.r = Return(pIn.obj)

\* C6: on a serialized analysis that has lost its end (at least the final
\* closing brace) parseAIResponse does not throw, and returns null or an
\* object that has scores.
C6_TruncatedIsNullOrHasScores ==
  (pOut.done /\ pIn.cut >= 1) =>
    /\ ~pOut.r.threw
    /\ \/ pOut.r.v = JNull
       \/ pOut.r.v.t = "obj" /\ HasKey(pOut.r.v, K("scores"))

C6_Witness ==
  /\ pOut.done /\ pOut.by = "revised" /\ pIn.cut = 1
  /\ WellFormedAnalysis(pIn.obj)
  /\ RepairBraces(ExtractJsonStr(TextOf(pIn))) # ExtractJsonStr(TextOf(pIn))
  /\ pOut.r = Return(JNull)

\* texts that hold no JSON at all
ProseKinds == {"sorry", "empty", "fence_only", "braces"}

\* C7: parseAIResponse never throws and returns null or an object; on a text
\* that is not JSON it returns null.
C7_NeverThrowsProseIsNull ==
  pOut.done =>
    /\ ~pOut.r.threw
    /\ pOut.r.v.t \in {"null", "obj"}
    /\ pIn.kind \in ProseKinds => pOut.r.v = JNull

C7_Witness ==
  /\ pOut.done /\ pIn.kind = "sorry" /\ pOut.r = Return(JNull)

\* a valid score set: the four inputs are integers in [0,100]
ValidScoreSet(s) ==
  \A name \in {K("business_impact"), K("strategic_fit"),
               K("cross_client_value"), K("effort_score")} :
    Get(s, name).t = "num" /\ Get(s, name).n \in 0..100

\* the weighted sum rounded half-up, in exact arithmetic
ExactHalfUp(bi, sf, cc, es) == (35 * bi + 25 * sf + 25 * cc + 15 * es + 50) \div 100

\* C9 as claimed: for a valid score set calculateOverallPriority returns an
\* integer in [0,100] equal to 0.35*business_impact + 0.25*strategic_fit +
\* 0.25*cross_client_value + 0.15*effort_score rounded half-up; (90, 85, 80,
\* S) gives 85 and (30, 40, 35, L) gives 35.
C9_WeightedFormula ==
  cOut.done =>
    /\ ValidScoreSet(cScores) =>
         /\ cOut.n \in 0..100
         /\ cOut.n = ExactHalfUp(Get(cScores, K("business_impact")).n,
                                 Get(cScores, K("strategic_fit")).n,
                                 Get(cScores, K("cross_client_value")).n,
                                 Get(cScores, K("effort_score")).n)
    /\ cScores = MkScores(JNum(90), JStr("S"), JUndef, JNum(85), JNum(80), JUndef)
         => cOut.n = 85
    /\ cScores = MkScores(JNum(30), JStr("L"), JUndef, JNum(40), JNum(35), JUndef)
         => cOut.n = 35

\* the effort score C10 says is used: the supplied one whenever present, else
\* the table entry of a known effort_size, else 50
ClaimedEffortScore(s) ==
  IF HasKey(s, K("effort_score")) THEN Get(s, K("effort_score")).n
  ELSE IF effortScores(Get(s, K("effort_size"))) # 0
       THEN effortScores(Get(s, K("effort_size")))
       ELSE 50

\* C10 as claimed: a missing business_impact, strategic_fit or
\* cross_client_value counts as 0, and the effort score used is the supplied
\* effort_score whenever present, else the table entry, else 50.
C10_EffortFallback ==
  cOut.done =>
    cOut.n = roundedWeightedSum(Get(cScores, K("business_impact")).n,
                                Get(cScores, K("strategic_fit")).n,
                                Get(cScores, K("cross_client_value")).n,
                                ClaimedEffortScore(cScores))

\* the requests among the first i that were admitted at an instant strictly
\* newer than t minus the window
AdmittedInWindow(i, t) ==
  {j \in 1..i : arrivals[j].started /\ arrivals[j].at > t - RATE_WINDOW}

\* C13: among the requests of the address admitted within one sliding window
\* of RATE_WINDOW ms there are at most RATE_LIMIT, whatever the interleaving
\* of arrivals and running requests; a request that arrives when RATE_LIMIT
\* admissions lie in its window is answered 429 with retryAfter 60 and does
\* no triage work.
C13_RateLimit ==
  \A i \in 1..Len(arrivals) :
    /\ Cardinality(AdmittedInWindow(i, arrivals[i].at)) <= RATE_LIMIT
    /\ Cardinality(AdmittedInWindow(i - 1, arrivals[i].at)) >= RATE_LIMIT =>
         /\ arrivals[i].status = 429
         /\ arrivals[i].retryAfter = 60
         /\ ~arrivals[i].started /\ ~arrivals[i].work
    /\ Cardinality(AdmittedInWindow(i - 1, arrivals[i].at)) < RATE_LIMIT =>
         arrivals[i].started

C13_Witness ==
  /\ inflight > 0
  /\ \E i, j \in 1..Len(arrivals) :
       /\ i < j
       /\ arrivals[i].status = 429 /\ arrivals[i].at < RATE_WINDOW
       /\ arrivals[j].started /\ arrivals[j].at >= RATE_WINDOW

\* the request was a POST that the rate limiter let through
AdmittedPost == req.method = "POST" /\ response.kind # "rate_limited"

\* the scoring dispatch of the request ended with both providers failed
ScoringBothFailed == LogCount(BothFailedEntry) = 1

\* C11: when the scoring dispatch of the revised handler has ended with both
\* providers failed, so that the analysis is absent, the request is answered
\* 200 with status success, without an ERROR entry, with recommendation
\* "On Hold" and confidence 0.0.
C11_AbsentAnalysisIsOnHold ==
  (rev = "revised" /\ ScoringBothFailed) =>
    /\ pc = "done"
    /\ result.analysis = JNull
    /\ response.status = 200 /\ response.kind = "success"
    /\ LogCount("ERROR") = 0
    /\ response.recommendation = ON_HOLD
    /\ response.confidence = 0

C11_Witness ==
  /\ rev = "revised" /\ pc = "done"
  /\ ProviderFailed("priority", "gemini") /\ ProviderFailed("priority", "claude")
  /\ response.recommendation = ON_HOLD /\ response.confidence = 0

\* the log entries that open a dispatch
DispatchStartEntries ==
  {"THEME_CLASSIFICATION_START", "PRIORITY_ANALYSIS_START", "TRYING_GEMINI"}

\* the request was aborted with the request-level error and no stage ran
AbortedBeforeAnyStage ==
  /\ pc = "done"
  /\ response.status = 500 /\ response.kind = "error"
  /\ LogCount("ERROR") = 1
  /\ calls = <<>>
  /\ \A entry \in DispatchStartEntries : LogCount(entry) = 0
  /\ result = NewResult

\* C12 as claimed: a POST without issue.key is answered 500 with the error
\* envelope, and no provider is called and no dispatch is started for it.
C12_MissingKeyIs500 ==
  (req.method = "POST" /\ ~req.hasKey) => AbortedBeforeAnyStage

\* C12 as amended: the same for every POST without issue.key that the rate
\* limiter has let through; one that it rejects is answered 429, and no
\* provider is called and no dispatch is started for it either.
C12_AdmittedMissingKeyIs500 ==
  (req.method = "POST" /\ ~req.hasKey) =>
    IF AdmittedPost THEN AbortedBeforeAnyStage
    ELSE /\ pc = "done" /\ response.status = 429
         /\ calls = <<>> /\ logs = <<>>

C12_Witness ==
  /\ rev = "revised" /\ req.method = "POST" /\ ~req.hasKey
  /\ requestCounts # <<>> /\ requestCounts[Len(requestCounts)] = now
  /\ response.status = 500

\* C14 as claimed: in every outcome that carries a priority_recommendation of
\* an analysis, the label is the one the banding rule gives for the outcome's
\* overall priority.
C14_LabelAgreesWithBand ==
  (pc = "done" /\ rev = "revised" /\ response.kind = "success"
     /\ result.analysis # JNull
     /\ response.importance.t = "num") =>
    /\ response.priority_recommendation = recommendationFor(response.importance.n)
    /\ response.recommendation = recommendationFor(response.importance.n)

\* C15 as claimed: every theme of an outcome is a string of the controlled
\* vocabulary (here: of any product) or the sentinel.
C15_ThemeInVocabulary ==
  (pc = "done" /\ response.kind = "success") =>
    \A i \in 1..Len(response.themes) :
      \/ response.themes[i] = THEME_NOT_IDENTIFIED
      \/ \E product \in DOMAIN THEME_MAP : response.themes[i] \in THEME_MAP[product]

\* C16 as claimed, for a well-formed ticket: an admitted POST with an issue
\* key is answered 200 with status success whatever the providers do, never
\* with the request-level error.
C16_ProviderErrorsNeverPropagate ==
  (pc = "done" /\ AdmittedPost /\ req.hasKey /\ req.ticket = "ok") =>
    /\ response.status = 200 /\ response.kind = "success"
    /\ LogCount("ERROR") = 0

\* the log entries that give the reason of a failure of the primary provider
PrimaryFailureEntries == {"PRIORITY_GEMINI_FAILED", "GEMINI_ERROR", "GEMINI_FAILED"}

\* C17 as claimed: once the primary provider has failed in the scoring
\* dispatch, by an exception or by an answer that parses to nothing valid,
\* the log holds a failure-reason entry for it; in particular it does while
\* the call of the secondary provider is pending.
C17_PrimaryFailureIsLogged ==
  ProviderFailed("priority", "gemini") =>
    \E entry \in PrimaryFailureEntries : LogCount(entry) >= 1

\* what the revision that parsed the input returns on the serialized object
\* alone, the whole text being parsed as JSON
ParsedAlone(obj) ==
  IF pOut.by = "revised" THEN parseAIResponse(Stringify(obj))
  ELSE baseline_parseAIResponse(Stringify(obj))

\* C18: of two fenced blocks the first json-tagged one is parsed, also when
\* an untagged block comes first; without a json-tagged block the first
\* fenced block is parsed; without a fence the whole text is parsed. The
\* blocks hold no backticks.
C18_ExtractionOrder ==
  (pOut.done /\ pIn.cut = 0 /\ pIn.obj # JUndef
     /\ ~Includes(Stringify(pIn.obj), <<FENCE>>)) =>
    /\ pIn.kind \in TwoBlockKinds \cup {"json_fence", "fence"} =>
         pOut.r = ParsedAlone(pIn.obj)
    /\ pIn.kind = "raw" =>
         ExtractJsonStr(TextOf(pIn)) = Trim(Stringify(pIn.obj))

C18_Witness ==
  /\ pOut.done /\ pIn.kind = "fence_then_json"
  /\ pOut.r.v # JNull
  /\ Get(Get(pOut.r.v, K("scores")), K("business_impact")) = JNum(90)
  /\ ParsedAlone(OTHER_BLOCK).v # JNull

\* the parsed data has truthy scores and a truthy priority_recommendation and
\* its scores have no overall_priority property
LacksOverallPriority ==
  /\ ParsedData.ok
  /\ Truthy(Get(ParsedData.v, K("scores")))
  /\ Truthy(Get(ParsedData.v, K("priority_recommendation")))
  /\ ~HasKey(Get(ParsedData.v, K("scores")), K("overall_priority"))

OverallPriorityFilled ==
  /\ ~pOut.r.threw /\ pOut.r.v.t = "obj"
  /\ Get(Get(pOut.r.v, K("scores")), K("overall_priority")) =
       JNum(calculateOverallPriority(Get(ParsedData.v, K("scores"))))

\* C19 as claimed: when the parsed data has scores and priority_recommendation
\* but no scores.overall_priority, parseAIResponse returns an object whose
\* scores.overall_priority is calculateOverallPriority of those scores.
C19_MissingOverallIsComputed ==
  (pOut.done /\ LacksOverallPriority) => OverallPriorityFilled

\* C19 as amended: so it is when the scores are an object or an array; when
\* they are a number, a string or true, parseAIResponse returns null.
C19_MissingOverallIsComputedInObject ==
  (pOut.done /\ LacksOverallPriority) =>
    IF Get(ParsedData.v, K("scores")).t \in {"obj", "arr"}
    THEN OverallPriorityFilled
    ELSE pOut.r = Return(JNull)

C19_Witness ==
  /\ pOut.done /\ LacksOverallPriority
  /\ Get(ParsedData.v, K("scores")).t = "obj"
  /\ HasKey(Get(ParsedData.v, K("scores")), K("business_impact"))
  /\ Get(Get(pOut.r.v, K("scores")), K("overall_priority")) = JNum(85)

\* C20 as claimed: a result that is not null is the parsed data itself, every
\* field with the backend's value, or the parsed data with an overall_priority
\* added to scores that had none.
C20_NothingOverwritten ==
  (pOut.done /\ ~pOut.r.threw /\ pOut.r.v # JNull) =>
    /\ ParsedData.ok
    /\ \/ pOut.r.v = ParsedData.v
       \/ /\ ~HasKey(Get(ParsedData.v, K("scores")), K("overall_priority"))
          /\ pOut.r.v =
               SetProp(ParsedData.v, K("scores"),
                       SetProp(Get(ParsedData.v, K("scores")), K("overall_priority"),
                               Get(Get(pOut.r.v, K("scores")), K("overall_priority"))))

\* the body the extraction gives for the input
ExtractedBody == ExtractJsonStr(TextOf(pIn))

\* the body has more opening than closing braces
MoreOpenThanClose(body) == CountOf(body, LBRACE) > CountOf(body, RBRACE)

\* a position before the closing brace at p from which the braces up to p
\* balance: one more opening than closing brace in between
ScanFindsMatch(body, p) ==
  \E i \in 1..(p - 1) :
    CountOf(SubSeq(body, i, p - 1), LBRACE) = CountOf(SubSeq(body, i, p - 1), RBRACE) + 1

\* C21: when the extracted body has more opening than closing braces and the
\* backward scan from its last closing brace finds the matching opening
\* brace, the text handed to JSON.parse is the prefix of the body that ends
\* at that closing brace; when there is no closing brace or no match, the
\* body is handed over unchanged.
C21_RepairIsPrefix ==
  (pOut.done /\ pOut.by = "revised" /\ MoreOpenThanClose(ExtractedBody)) =>
    LET body == ExtractedBody
        last == LastIndexOf(body, RBRACE)
        handed == RepairBraces(body)
    IN IF last >= 1 /\ ScanFindsMatch(body, last)
       THEN handed = SubSeq(body, 1, last)
       ELSE handed = body

C21_Witness ==
  /\ pOut.done /\ pOut.by = "revised" /\ MoreOpenThanClose(ExtractedBody)
  /\ Len(RepairBraces(ExtractedBody)) < Len(ExtractedBody)
  /\ RepairBraces(ExtractedBody)[Len(RepairBraces(ExtractedBody))] = RBRACE

\* C30: on every text whose extracted body does not have more opening than
\* closing braces, the parser of the baseline handler and the parser of the
\* revised handler return the same result.
C30_RevisionsAgreeWithoutRepair ==
  (pOut.done /\ ~MoreOpenThanClose(ExtractedBody)) =>
    /\ parseAIResponse(TextOf(pIn)) = baseline_parseAIResponse(TextOf(pIn))
    /\ pOut.r = parseAIResponse(TextOf(pIn))
    /\ pOut.r = baseline_parseAIResponse(TextOf(pIn))

C30_Witness ==
  /\ pOut.done /\ pOut.by = "baseline" /\ ~MoreOpenThanClose(ExtractedBody)
  /\ pOut.r.v.t = "obj"
  /\ pOut.r = parseAIResponse(TextOf(pIn))

\* the instants of the admitted requests among the first i that are newer
\* than t minus the window, in the order of arrival
RECURSIVE AdmittedInstants(_, _)
AdmittedInstants(i, t) ==
  IF i = 0 THEN <<>>
  ELSE IF arrivals[i].started /\ arrivals[i].at > t - RATE_WINDOW
       THEN Append(AdmittedInstants(i - 1, t), arrivals[i].at)
       ELSE AdmittedInstants(i - 1, t)

\* the last admitted request, 0 when there is none
LastAdmitted ==
  IF \E i \in 1..Len(arrivals) : arrivals[i].started
  THEN CHOOSE i \in 1..Len(arrivals) :
         arrivals[i].started /\ \A j \in (i + 1)..Len(arrivals) : ~arrivals[j].started
  ELSE 0

\* the oldest instant that counted against request i
OldestCounted(i) ==
  LET S == {arrivals[j].at : j \in AdmittedInWindow(i - 1, arrivals[i].at)}
  IN CHOOSE t \in S : \A u \in S : t <= u

\* C22: the limit only defers. A rejected request is not recorded: the list
\* kept for the address holds the instants of admitted requests only, as the
\* last admission left it. A request that finds fewer than RATE_LIMIT
\* admissions in the window before it is admitted, and after a rejection the
\* first request that arrives once the oldest counted admission has left the
\* window is admitted, however many requests were rejected in between.
C22_LimitOnlyDefers ==
  /\ requestCounts =
       (IF LastAdmitted = 0 THEN <<>>
        ELSE AdmittedInstants(LastAdmitted, arrivals[LastAdmitted].at))
  /\ \A i \in 1..Len(arrivals) :
       Len(AdmittedInstants(i - 1, arrivals[i].at)) < RATE_LIMIT => arrivals[i].started
  /\ \A i, j \in 1..Len(arrivals) :
       ( /\ i < j /\ ~arrivals[i].started
         /\ arrivals[j].at >= OldestCounted(i) + RATE_WINDOW
         /\ \A k \in (i + 1)..(j - 1) : arrivals[k].at < OldestCounted(i) + RATE_WINDOW )
       => arrivals[j].started

C22_Witness ==
  \E i, j \in 1..Len(arrivals) :
    /\ i < j
    /\ \A k \in i..(j - 1) : ~arrivals[k].started /\ arrivals[k].at = RATE_WINDOW - 1
    /\ arrivals[j].started /\ arrivals[j].at = OldestCounted(i) + RATE_WINDOW
    /\ requestCounts = <<RATE_WINDOW>>

\* the positions of an entry in the log
LogIdx(action) == {i \in 1..Len(logs) : logs[i] = action}

\* the entry was written before call k was issued
LoggedBefore(action, k) == \E i \in LogIdx(action) : i <= calls[k].after

\* the entries with which the theme dispatch ends
ThemeEndEntries == {"THEME_CLASSIFICATION_SUCCESS", "THEME_CLASSIFICATION_BOTH_FAILED"}

\* C23: the two dispatches of the revised handler are strictly sequential.
\* When a scoring provider call is issued, every theme provider call has
\* ended and the theme dispatch has ended (its end entry and
\* THEME_CLASSIFICATION_COMPLETE are written), and after that the effort
\* inference and the scoring prompt were completed, before the first
\* scoring call.
C23_DispatchesAreSequential ==
  rev = "revised" =>
    \A k \in 1..Len(calls) : calls[k].stage = "priority" =>
      /\ \A j \in 1..Len(calls) : calls[j].stage = "theme" =>
           j < k /\ calls[j].outcome # "pending" /\ calls[j].after < calls[k].after
      /\ \E e \in ThemeEndEntries : LoggedBefore(e, k)
      /\ \E i \in LogIdx("THEME_CLASSIFICATION_COMPLETE") :
           /\ i <= calls[k].after
           /\ \A e \in ThemeEndEntries : \A h \in LogIdx(e) : h < i
           /\ \E m \in LogIdx("EFFORT_ESTIMATION") :
                \E n \in LogIdx("PRIORITY_PROMPT_BUILT") :
                  i < m /\ m < n /\ n <= calls[k].after

C23_Witness ==
  /\ rev = "revised"
  /\ \E j, k \in 1..Len(calls) :
       /\ calls[j].stage = "theme" /\ calls[j].provider = "claude"
       /\ calls[k].stage = "priority" /\ calls[k].provider = "gemini"
       /\ calls[k].outcome = "pending"

\* the request was answered 200 by the revised handler
RevisedSuccess == rev = "revised" /\ pc = "done" /\ response.kind = "success"

\* C25: when both providers fail in the theme dispatch of the revised
\* handler, the dispatch yields no theme (null) and the themes list of the
\* outcome is empty.
C25_ThemeFailureIsNull ==
  (RevisedSuccess /\ LogCount("THEME_CLASSIFICATION_BOTH_FAILED") = 1) =>
    result.theme = "null" /\ response.themes = <<>>

\* the name under which the revised handler reports a provider
ModelLabel(provider) ==
  IF provider = "gemini" THEN "Gemini Flash 2.0" ELSE "Claude Sonnet 3.5"

\* the provider whose call of the stage was accepted
AcceptedProvider(stage) ==
  {calls[i].provider : i \in {k \in 1..Len(calls) :
                                calls[k].stage = stage /\ calls[k].outcome = "accepted"}}

\* C26: in a 200 response of the revised handler whose analysis is present,
\* priorityModel names the provider whose scoring response was accepted and
\* themeModel names the provider that produced the theme.
C26_ResponseNamesProviders ==
  (RevisedSuccess /\ result.analysis # JNull) =>
    /\ \E p \in AcceptedProvider("priority") :
         response.priorityModel = JStr(ModelLabel(p))
    /\ \A p \in AcceptedProvider("theme") :
         response.themeModel = ModelLabel(p)

\* the orchestrator ran for the request and the request was answered
OrchestratorReturned == pc = "done" /\ LogCount("PROCESSING_START") = 1

ProviderLabels == {ModelLabel("gemini"), ModelLabel("claude")}

\* the baseline result: modelUsed is set exactly when the analysis is, and
\* Claude is named only after a failed Gemini call
BaselineResultCoupled ==
  /\ result.modelUsed # "null" <=> result.analysis # JNull
  /\ result.modelUsed = "Claude Sonnet" =>
       \E i, j \in 1..Len(calls) :
         /\ i < j
         /\ calls[i].provider = "gemini" /\ calls[i].outcome \in FailedOutcomes
         /\ calls[j].provider = "claude" /\ calls[j].outcome = "accepted"

\* C29 as stated: for the baseline, result.modelUsed is non-null exactly when
\* result.analysis is, and is 'Claude Sonnet' only if Gemini was tried first
\* and failed; for the revised handler, result.analysis is non-null exactly
\* when result.priorityModel names a provider, and priorityModel is "Failed"
\* otherwise.
C29_ModelNamesCoupled ==
  OrchestratorReturned =>
    IF rev = "baseline" THEN BaselineResultCoupled
    ELSE /\ result.analysis # JNull <=> result.priorityModel \in ProviderLabels
         /\ result.analysis = JNull => result.priorityModel = "Failed"

\* C29, amended: as above, except that in the revised handler priorityModel
\* is "Failed" when the scoring dispatch ended without an accepted analysis,
\* and stays unset when an exception ended the orchestrator before the
\* scoring dispatch returned (ERROR is logged).
C29_ModelNamesCoupledOrUnset ==
  OrchestratorReturned =>
    IF rev = "baseline" THEN BaselineResultCoupled
    ELSE /\ result.analysis # JNull <=> result.priorityModel \in ProviderLabels
         /\ result.analysis = JNull =>
              IF LogCount("PRIORITY_ANALYSIS_FAILED") = 1
              THEN result.priorityModel = "Failed"
              ELSE /\ result.priorityModel = "undefined"
                   /\ LogCount("ERROR") >= 1
                   /\ LogCount("PRIORITY_ANALYSIS_START") = 0

C29_Witness ==
  /\ OrchestratorReturned /\ rev = "revised"
  /\ result.analysis = JNull /\ result.priorityModel = "undefined"
  /\ response.status = 200

\* the scoring provider attempts of a run: provider and outcome, in order
PriorityAttempts(r) ==
  LET s == SelectSeq(r.calls, LAMBDA c : c.stage = "priority")
  IN [i \in 1..Len(s) |-> <<s[i].provider, s[i].outcome>>]

\* the theme provider attempts of a run
ThemeAttempts(r) ==
  LET s == SelectSeq(r.calls, LAMBDA c : c.stage = "theme")
  IN [i \in 1..Len(s) |-> <<s[i].provider, s[i].outcome>>]

\* the theme dispatch of the run has ended and its scoring dispatch begun
ScoringBegun(r) == \E i \in 1..Len(r.logs) : r.logs[i] = "PRIORITY_ANALYSIS_START"

\* the two runs are at the same point of the same scoring dispatch
SameScoring ==
  /\ PriorityAttempts(runA) = PriorityAttempts(runB)
  /\ runA.pc \in PriorityPcs \cup {"done"}
  /\ runA.pc = runB.pc
  /\ runA.result.analysis = runB.result.analysis
  /\ runA.result.priorityModel = runB.result.priorityModel

\* C24 as stated: however the theme dispatch ended, the scoring dispatch of
\* the same request makes the same sequence of provider attempts, starting
\* with the primary, and yields the same analysis.
C24_ScoringIgnoresTheme ==
  (ScoringBegun(runA) /\ ScoringBegun(runB)) =>
    /\ SameScoring
    /\ PriorityAttempts(runA) # <<>> /\ PriorityAttempts(runA)[1][1] = "gemini"

\* C24, amended: the same sequence of attempts and the same analysis; the
\* sequence starts with Gemini when the Gemini client was initialised, with
\* Claude when only the Claude client was, and is empty when neither was.
C24_ScoringIgnoresThemeFirstAvailable ==
  (ScoringBegun(runA) /\ ScoringBegun(runB)) =>
    /\ SameScoring
    /\ genAI => PriorityAttempts(runA)[1][1] = "gemini"
    /\ (~genAI /\ anthropic) => PriorityAttempts(runA)[1][1] = "claude"
    /\ (~genAI /\ ~anthropic) => PriorityAttempts(runA) = <<>>

C24_Witness ==
  /\ runA.pc = "done" /\ runB.pc = "done"
  /\ ScoringBegun(runA) /\ ScoringBegun(runB)
  /\ ThemeAttempts(runA) = << <<"gemini", "throw">>, <<"claude", "throw">> >>
  /\ ThemeAttempts(runB) = << <<"gemini", "accepted">> >>
  /\ Len(PriorityAttempts(runA)) = 2
  /\ runB.result.analysis # JNull

\* the rolling hash of the claim: h = 31 * h + character code, kept to 32 bits
RECURSIVE Rolling31(_, _)
Rolling31(chars, h) ==
  IF chars = <<>> \/ h.hi \notin 0..(Limb - 1) THEN h
  ELSE LET t == h.lo * 31 + Head(chars)
       IN Rolling31(Tail(chars),
                    [hi |-> (h.hi * 31 + t \div Limb) % Limb, lo |-> t % Limb])

\* the magnitude of the 32 bits read as a signed integer
AbsOf32(h) ==
  IF h.hi < 32768 THEN h
  ELSE IF h.lo = 0 THEN [hi |-> Limb - h.hi, lo |-> 0]
  ELSE [hi |-> Limb - 1 - h.hi, lo |-> Limb - h.lo]

\* the number a sequence of decimal digit characters writes; hi grows beyond
\* 16 bits when the number does not fit 32 bits
RECURSIVE DigitsValue(_, _)
DigitsValue(ds, v) ==
  IF ds = <<>> THEN v
  ELSE LET d == CHOOSE k \in 0..9 : DigitChars[k + 1] = Head(ds)
           t == v.lo * 10 + d
       IN DigitsValue(Tail(ds), [hi |-> v.hi * 10 + t \div Limb, lo |-> t % Limb])

IsDigits(s) == \A i \in 1..Len(s) : \E k \in 1..10 : DigitChars[k] = s[i]

\* the text that is hashed according to the claim
HashedText(in) ==
  (IF in.theme = <<>> THEN UNKNOWN ELSE in.theme)
    \o [i \in 1..(IF Len(in.similar) < 20 THEN Len(in.similar) ELSE 20) |-> in.similar[i]]

\* C27: the identifier depends only on the theme label (or 'unknown') and
\* the first 20 characters of the similar-features text; it is "SIM-"
\* followed by the absolute value of the rolling hash h = 31*h + character
\* code, truncated to 32 bits, in decimal, left-padded with zeros to at
\* least 3 digits, so the numeric part is never negative and never exceeds
\* 2^31; it is null when there is no similar-features text.
C27_SimilarityGroup ==
  (sOut.done /\ sIn.kind # "number") =>
    /\ ~sOut.threw
    /\ IF sIn.kind = "absent" \/ sIn.similar = <<>>
       THEN sOut.isNull
       ELSE LET num == SubSeq(sOut.text, 5, Len(sOut.text))
                m == AbsOf32(Rolling31(HashedText(sIn), [hi |-> 0, lo |-> 0]))
            IN /\ ~sOut.isNull
               /\ SubSeq(sOut.text, 1, 4) = SIM_PREFIX
               /\ Len(num) >= 3 /\ IsDigits(num)
               /\ Len(num) > 3 => num[1] # "0"
               /\ DigitsValue(num, [hi |-> 0, lo |-> 0]) = m
               /\ m.hi < 32768 \/ (m.hi = 32768 /\ m.lo = 0)
               /\ sOut = generateSimilarityGroup(
                           [sIn EXCEPT !.similar = Substring0(sIn.similar, 20)])

C27_Witness ==
  /\ sOut.done /\ ~sOut.isNull /\ sIn.kind = "text"
  /\ Len(sIn.similar) > 20 /\ sIn.similar[21] # sIn.similar[20]
  /\ Int32Value(Reduce(HashedText(sIn), [hi |-> 0, lo |-> 0])).neg
  /\ Len(sOut.text) >= 12

C27_WitnessPadded ==
  sOut.done /\ sOut.text = <<"S", "I", "M", "-", "0", "3", "2">>

\* the lower-case texts of the ticket
EffortSummary == toLowerCase(eIn.summary)
EffortDescription == toLowerCase(eIn.description)

\* the score the claim gives a bucket: 10 per keyword of the bucket found in
\* the summary or the description, 15 per pattern matched there, 5 per
\* component whose name holds a keyword of the bucket
ClaimedBucketScore(b) ==
  LET ind == effortIndicators[b]
      kw == {k \in 1..Len(ind.keywords) :
               includes(EffortSummary, ind.keywords[k])
               \/ includes(EffortDescription, ind.keywords[k])}
      pt == {k \in 1..Len(ind.patterns) :
               RegExpTest(ind.patterns[k], EffortSummary)
               \/ RegExpTest(ind.patterns[k], EffortDescription)}
      cp == {c \in 1..Len(eIn.components) :
               \E k \in 1..Len(ind.keywords) :
                 includes(toLowerCase(eIn.components[c]), ind.keywords[k])}
  IN 10 * Cardinality(kw) + 15 * Cardinality(pt) + 5 * Cardinality(cp)

Buckets == {"XS", "S", "M", "L", "XL"}

EffortTable == [b \in Buckets |->
  CASE b = "XS" -> 100 [] b = "S" -> 80 [] b = "M" -> 60 [] b = "L" -> 40 [] b = "XL" -> 20]

\* before the overrides the highest-scoring bucket is chosen, "M" when every
\* bucket scores zero
HighestBucketInferred ==
  /\ \A b \in Buckets : ClaimedBucketScore(b) <= ClaimedBucketScore(eOut.inferred)
  /\ (\A b \in Buckets : ClaimedBucketScore(b) = 0) => eOut.inferred = "M"
  /\ (\E b \in Buckets : ClaimedBucketScore(b) > 0) =>
       eOut.maxScore = ClaimedBucketScore(eOut.inferred)

\* the returned score is the table value of the returned size
ScoreIsTableValue == eOut.effort_score = EffortTable[eOut.effort_size]

\* C28 as stated: each bucket scores 10 per keyword hit, 15 per pattern hit
\* and 5 per component hit, and before the overrides the highest-scoring
\* bucket is chosen, "M" when all score zero; a ticket titled "Add dark mode
\* toggle to user preferences" is classified XS or S; the returned
\* effort_score is the table value of the returned effort_size, also after
\* an override.
C28_EffortInference ==
  eOut.done =>
    /\ HighestBucketInferred
    /\ eIn.summary = DARK_MODE_TITLE => eOut.effort_size \in {"XS", "S"}
    /\ ScoreIsTableValue

\* C28, amended: as above, but a ticket with that title is classified XS or
\* S only if its description and components give none of the buckets M, L
\* and XL a higher score than XS; the sample ticket with that title is XS.
C28_EffortInferenceOfWholeTicket ==
  eOut.done =>
    /\ HighestBucketInferred
    /\ eIn.summary = DARK_MODE_TITLE =>
         \/ eOut.effort_size \in {"XS", "S"}
         \/ \E b \in {"M", "L", "XL"} : ClaimedBucketScore(b) > ClaimedBucketScore("XS")
    /\ eIn = MockTicket => eOut.effort_size = "XS"
    /\ ScoreIsTableValue

C28_Witness ==
  /\ eOut.done /\ eIn = MockTicket
  /\ eOut.effort_size = "XS" /\ eOut.effort_score = 100 /\ eOut.maxScore = 35

C28_WitnessOverride ==
  /\ eOut.done /\ eOut.inferred = "L" /\ eOut.maxScore = 35
  /\ eOut.effort_size = "S" /\ eOut.effort_score = 80

====
